---- MODULE Spec2Model ----
(***************************************************************************)
(* Streaming speech-recognition sessions of meeting-translate: the four    *)
(* adapters (GoogleSTTStream, IflytekSTTStream, DeepgramSTTStream,         *)
(* MockSTTStream) over the common STTStreamBase state, their worker        *)
(* threads and queues, and the Google health monitor.                      *)
(*                                                                         *)
(* One session object is modelled.  Its API is driven by two callers: the  *)
(* controller (connect / close / _reconnect) and the pusher (push).  Every *)
(* worker thread started by the session is an entry of `threads`.  Each    *)
(* action is one step of one thread between two accesses of shared state.  *)
(***************************************************************************)
EXTENDS Naturals, Sequences, FiniteSets

VARIABLES
    adapter,        \* which subclass of STTStreamBase the session is
    status,         \* STTStreamBase._status
    closed,         \* GoogleSTTStream._closed / IflytekSTTStream._closed
    stop,           \* IflytekSTTStream._stop_event / DeepgramSTTStream._should_stop
    connected,      \* MockSTTStream._connected / IflytekSTTStream._connected_event
    audio_queue,    \* self._audio_queue
    result_queue,   \* GoogleSTTStream._result_queue
    threads,        \* every thread the session has started, in start order
    thr,            \* the session's thread handles (index into threads, 0 = None)
    ctl,            \* the controller caller: which call it is in, and where
    psh,            \* the pusher caller: where it is inside push()
    ws,             \* IflytekSTTStream._ws / DeepgramSTTStream.connection (0 = None)
    conns,          \* the WebSocket connections made so far and their states
    ext,            \* further attributes of the iFlytek and Deepgram sessions
    health,         \* the Google health-monitor fields; Deepgram's _repeat_count, _last_text
    stats,          \* STTStreamBase._stats
    sent,           \* history: what reached the backend, in order
    delivered,      \* history: callbacks invoked, in order
    emitted,        \* history: number of events the backend has produced
    backend,        \* the backend: the kind, text and pgs of its latest event, the finals it has produced
    calls,          \* history: numbers of connect() and push() calls, accepted pushes,
                    \* items consumed; whether close() has been called; the bytes of
                    \* the pushes that returned true; the connect() calls that
                    \* returned true; whether reset_stats() has been called; the
                    \* _reconnect() calls of a Google or iFlytek session that
                    \* returned true
    run,            \* history: current run of identical consecutive partial reports;
                    \* the text of the latest partial and of the latest final
    gw,             \* the gateway's rebuild controller for one client connection
    factory,        \* one call of STTFactory.create_stt_stream: its inputs and its result
    auth            \* the iFlytek credentials and endpoint, the clock, and (history)
                    \* the authentication URLs built so far

vars == <<adapter, status, closed, stop, connected, audio_queue, result_queue,
          threads, thr, ctl, psh, ws, conns, ext, health, stats, sent, delivered, emitted,
          backend, calls, run, gw, factory, auth>>

----------------------------------------------------------------------------
(* Bounds of the model *)

MaxInput == 2           \* push() calls and backend events in the lifecycle specification
MaxPushFull == 102      \* push() calls in the queue-capacity specification
MaxConnect == 2         \* connect() calls (each may start threads)
MaxConsume == 2         \* items taken from the audio queue in the queue-capacity specification
MaxEmitHealth == 13     \* backend events in the health specification
MaxResultQueue == 1     \* results in flight in the health specification
MaxVaried == 1          \* backend events of the health specification that may change the text
MaxFinals == 2          \* final results in the health specification
MaxCallbackEvents == 4  \* backend events in the callback specification
MaxStatusPush == 1      \* push() calls in the status specification
MaxSessionMessages == 1 \* result messages in the iFlytek session specification
MaxResults == 3         \* callbacks in the translation specification
MaxInbound == 2         \* inbound messages in the inbound specification
MaxFramingPush == 1     \* push() calls in the framing specification
MaxLanguageMsgs == 3    \* result messages in the language specification
MaxFinalEvents == 5     \* transcript events in the Deepgram results specification
MaxRepeatEvents == 12   \* _handle_transcript calls in the repeat specification
MaxTranscripts == 4     \* _handle_transcript calls in the transcript specification
MaxMessages == 3        \* inbound messages in the aggregation specification
MaxBuilt == 2           \* authentication URLs kept in the history
MaxClock == 1           \* seconds the clock advances in the authentication specification
SmallChunkLen == 500    \* bytes of a small audio packet of the gateway's client

(* Program constants *)

QueueCap == 100                 \* sync_queue.Queue(maxsize=100)
max_repeat_threshold == 10      \* self._max_repeat_threshold
max_empty_threshold == 10       \* self._max_empty_threshold
min_transcript_length == 3      \* self._min_transcript_length
ErrorRateMinRequests == 10      \* total_requests > 10
MockResultLen == 1000           \* len(audio_data) > 1000

----------------------------------------------------------------------------
(* STTStatus *)

DISCONNECTED == "disconnected"
CONNECTING == "connecting"
CONNECTED == "connected"
STREAMING == "streaming"
ERROR == "error"
CLOSED == "closed"

STTStatus == {DISCONNECTED, CONNECTING, CONNECTED, STREAMING, ERROR, CLOSED}

Adapters == {"google", "iflytek", "deepgram", "mock"}

----------------------------------------------------------------------------
(* Values *)

\* An audio chunk is known by the number of the push() that offered it and
\* its length in bytes; the end-of-stream sentinel None has id 0.
None == [id |-> 0, len |-> 0]
ChunkLen == 2000
ChunkLens == {0, ChunkLen}

\* Text is a sequence of characters; " " is whitespace.
SP == " "
Hello == <<"a", "b", "c">>
RawTexts == { <<SP>>, <<"a", "b">>, Hello, <<"a", "b", "c", SP>> }

RECURSIVE LStrip(_)
LStrip(t) == IF t # <<>> /\ Head(t) = SP THEN LStrip(Tail(t)) ELSE t

RECURSIVE RStrip(_)
RStrip(t) ==
    IF t # <<>> /\ t[Len(t)] = SP THEN RStrip(SubSeq(t, 1, Len(t) - 1)) ELSE t

\* str.strip()
Strip(t) == RStrip(LStrip(t))

NoRes == [kind |-> "none", transcript |-> <<>>, is_final |-> FALSE, timestamp |-> 0]

NoThread == 0

Thread(kind, pc, conn) ==
    [kind |-> kind, pc |-> pc, gen |-> TRUE, chunk |-> None, off |-> 0, res |-> NoRes,
     conn |-> conn, st |-> 0]

\* threading.Thread.is_alive()
IsAlive(t) == t # NoThread /\ threads[t].pc # "exited"

Idle == [op |-> "none", pc |-> "idle"]

PshIdle == [pc |-> "idle", chunk |-> None, onClosed |-> FALSE, enq |-> FALSE, ret |-> "none"]

InitCalls ==
    [connect |-> 0, push |-> 0, accepted |-> 0, consumed |-> 0, close |-> FALSE,
     bytes |-> 0, connected |-> 0, reset |-> FALSE, reconnected |-> 0]

NoHandles ==
    [recognition_thread |-> NoThread, result_thread |-> NoThread,
     sender_thread |-> NoThread, ws_thread |-> NoThread, loop_thread |-> NoThread]

InitStats ==
    [total_bytes_sent |-> 0, total_partial_results |-> 0, total_final_results |-> 0,
     total_errors |-> 0, connection_count |-> 0, reconnection_count |-> 0]

InitExt ==
    [first_frame_sent |-> FALSE, agg_text |-> <<>>, last_partial |-> <<>>,
     current_reconnect_attempts |-> 0, language_code |-> "none"]

InitHealth ==
    [last_transcript |-> <<>>, last_final_transcript |-> <<>>,
     repeat_count |-> 0, consecutive_empty_count |-> 0]

\* the gateway before its first create_stt_stream()
InitGw == [pc |-> "start", stt |-> FALSE, stt_rebuild_count |-> 0, constructed |-> 0,
           last |-> "none", unclosed |-> 0,
           processed_texts |-> {}, last_processed_text |-> <<>>,
           partial_text_buffer |-> <<>>, message_queue |-> <<>>]

\* no call of the factory
NoCall == [engine |-> "none", STT_ENGINE |-> "google", credentials |-> {},
           result |-> "none"]

----------------------------------------------------------------------------
(* STTStreamBase *)

Inc(st, field, n) == [st EXCEPT ![field] = @ + n]

\* STTStreamBase.reset_stats: every counter is set back to zero
reset_stats ==
    /\ stats' = InitStats
    /\ calls' = [calls EXCEPT !.reset = TRUE]
    /\ UNCHANGED <<adapter, gw, factory, auth, backend, ws, conns, ext, status, closed, stop, connected, audio_queue,
                   result_queue, threads, thr, ctl, psh, health, sent, delivered,
                   emitted, run>>

\* mutant: a Disconnected session passes the status test
BaseIsHealthy_disconnected(idle) ==
    /\ status \notin {ERROR, CLOSED}
    /\ ~idle
    /\ LET total_requests == stats.total_partial_results + stats.total_final_results
       IN  ~(total_requests > ErrorRateMinRequests
               /\ 2 * stats.total_errors > total_requests)

\* STTStreamBase.is_healthy; idle: last activity is more than _max_idle_time ago
BaseIsHealthy(idle) ==
    /\ status \notin {DISCONNECTED, ERROR, CLOSED}
    /\ ~idle
    /\ LET total_requests == stats.total_partial_results + stats.total_final_results
       IN  ~(total_requests > ErrorRateMinRequests
               /\ 2 * stats.total_errors > total_requests)

\* _handle_partial_result / _handle_final_result for each of `results` in
\* turn: blank text is passed over, otherwise the statistics are updated and
\* the caller-supplied callback is invoked; an exception it raises is caught
\* and counted
RECURSIVE Entries(_)
Entries(results) ==
    IF results = <<>> THEN <<>>
    ELSE (IF Strip(Head(results).text) = <<>> THEN <<>>
          ELSE <<[text |-> Head(results).text, is_final |-> Head(results).is_final,
                  timestamp |-> Head(results).timestamp, late |-> (status = CLOSED),
                  raised |-> Head(results).raises]>>)
         \o Entries(Tail(results))

Count(entries, is_final) ==
    Cardinality({i \in DOMAIN entries : entries[i].is_final = is_final})

Raised(entries) == Cardinality({i \in DOMAIN entries : entries[i].raised})

\* mutant: an exception of the callback is caught but not counted
Callbacks_uncounted(results) ==
    /\ delivered' = delivered \o Entries(results)
    /\ stats' = [stats EXCEPT
                   !.total_partial_results = @ + Count(Entries(results), FALSE),
                   !.total_final_results = @ + Count(Entries(results), TRUE)]

Callbacks(results) ==
    /\ delivered' = delivered \o Entries(results)
    /\ stats' = [stats EXCEPT
                   !.total_partial_results = @ + Count(Entries(results), FALSE),
                   !.total_final_results = @ + Count(Entries(results), TRUE),
                   !.total_errors = @ + Raised(Entries(results))]

Callback(text, is_final, ts, raises) ==
    Callbacks(<<[text |-> text, is_final |-> is_final, timestamp |-> ts,
                 raises |-> raises]>>)

\* push() returns
PushReturn(ret) ==
    /\ psh' = [psh EXCEPT !.pc = "idle", !.ret = IF ret THEN "true" ELSE "false"]
    /\ calls' = [calls EXCEPT !.accepted = IF ret THEN @ + 1 ELSE @,
                              !.bytes = IF ret THEN @ + psh.chunk.len ELSE @]

\* push() is called with some chunk
PushCall(limit, lens, pc, ret) ==
    /\ psh.pc = "idle"
    /\ calls.push + emitted < limit
    /\ \E n \in lens :
         psh' = [pc |-> pc, chunk |-> [id |-> calls.push + 1, len |-> n],
                 onClosed |-> (status = CLOSED), enq |-> FALSE, ret |-> ret]
    /\ calls' = [calls EXCEPT !.push = @ + 1]

----------------------------------------------------------------------------
(* GoogleSTTStream: health monitor *)

\* _check_stream_health; late: the last response is older than _response_timeout
\* mutant: the repeat test with > in place of >=
CheckStreamHealth_gt(h, late) ==
    /\ ~late
    /\ ~(h.consecutive_empty_count >= max_empty_threshold)
    /\ ~(h.repeat_count > max_repeat_threshold
           /\ Len(h.last_transcript) >= min_transcript_length)

CheckStreamHealth(h, late) ==
    /\ ~late
    /\ ~(h.consecutive_empty_count >= max_empty_threshold)
    /\ ~(h.repeat_count >= max_repeat_threshold
           /\ Len(h.last_transcript) >= min_transcript_length)

\* mutant: an empty result leaves the repeat count as it is
HandleTranscript_keep(h, text, is_final) ==
    IF text = <<>> \/ Len(Strip(text)) = 0
    THEN LET h1 == [h EXCEPT !.consecutive_empty_count = @ + 1]
         IN  [h |-> h1, ok |-> CheckStreamHealth(h1, FALSE)]
    ELSE LET comparison_text == IF is_final THEN h.last_final_transcript
                                            ELSE h.last_transcript
             h1 == IF is_final
                   THEN [h EXCEPT !.consecutive_empty_count = 0,
                                  !.last_final_transcript = text]
                   ELSE [h EXCEPT !.consecutive_empty_count = 0,
                                  !.last_transcript = text]
             h2 == IF text = comparison_text
                   THEN [h1 EXCEPT !.repeat_count = @ + 1]
                   ELSE [h1 EXCEPT !.repeat_count = 0]
         IN  IF text = comparison_text /\ is_final
             THEN [h |-> h2, ok |-> TRUE]
             ELSE [h |-> h2, ok |-> CheckStreamHealth(h2, FALSE)]

\* _handle_transcript: the new monitor fields and the value returned
HandleTranscript(h, text, is_final) ==
    IF text = <<>> \/ Len(Strip(text)) = 0
    THEN LET h1 == [h EXCEPT !.consecutive_empty_count = @ + 1, !.repeat_count = 0]
         IN  [h |-> h1, ok |-> CheckStreamHealth(h1, FALSE)]
    ELSE LET comparison_text == IF is_final THEN h.last_final_transcript
                                            ELSE h.last_transcript
             h1 == IF is_final
                   THEN [h EXCEPT !.consecutive_empty_count = 0,
                                  !.last_final_transcript = text]
                   ELSE [h EXCEPT !.consecutive_empty_count = 0,
                                  !.last_transcript = text]
             h2 == IF text = comparison_text
                   THEN [h1 EXCEPT !.repeat_count = @ + 1]
                   ELSE [h1 EXCEPT !.repeat_count = 0]
         IN  IF text = comparison_text /\ is_final
             THEN [h |-> h2, ok |-> TRUE]
             ELSE [h |-> h2, ok |-> CheckStreamHealth(h2, FALSE)]

\* GoogleSTTStream.is_healthy
GoogleIsHealthy(idle, late) ==
    BaseIsHealthy(idle) /\ ~closed /\ CheckStreamHealth(health, late)

----------------------------------------------------------------------------
(* GoogleSTTStream: connect, _reconnect, close *)

\* connect(), also as the last part of _reconnect(): CONNECTING is set
Google_connect ==
    /\ adapter = "google"
    /\ ctl.pc \in {"idle", "sleep"}
    /\ ctl.pc = "idle" => calls.connect < MaxConnect
    /\ ctl' = [op |-> IF ctl.pc = "idle" THEN "connect" ELSE ctl.op, pc |-> "start_threads"]
    /\ calls' = [calls EXCEPT !.connect = IF ctl.pc = "idle" THEN @ + 1 ELSE @]
    /\ status' = CONNECTING
    /\ UNCHANGED <<adapter, gw, factory, auth, backend, ws, conns, ext, closed, stop, connected, audio_queue, result_queue, threads,
                   thr, psh, health, stats, sent, delivered, emitted, run>>

\* connect(): the threads are started unless the recognition thread is alive,
\* CONNECTED is set and connect() returns True
Google_connect_start ==
    /\ adapter = "google"
    /\ ctl.pc = "start_threads"
    /\ IF IsAlive(thr.recognition_thread)
       THEN UNCHANGED <<threads, thr>>
       ELSE /\ threads' = threads \o <<Thread("rec", "run", 0), Thread("res", "idle", 0)>>
            /\ thr' = [thr EXCEPT !.recognition_thread = Len(threads) + 1,
                                  !.result_thread = Len(threads) + 2]
    /\ status' = CONNECTED
    /\ stats' = Inc(stats, "connection_count", 1)
    /\ ctl' = Idle
    /\ calls' = [calls EXCEPT !.connected = @ + 1,
                              !.reconnected = IF ctl.op = "reconnect" THEN @ + 1 ELSE @]
    /\ UNCHANGED <<adapter, gw, factory, auth, backend, ws, conns, ext, closed, stop, connected, audio_queue, result_queue,
                   psh, health, sent, delivered, emitted, run>>

\* close(), also as the first part of _reconnect(): returns at once when
\* _closed is set, otherwise sets it and _set_status(CLOSED)
Google_close ==
    /\ adapter = "google"
    /\ ctl.pc = "idle"
    /\ \E op \in {"close", "reconnect"} :
         /\ op = "reconnect" => calls.connect < MaxConnect
         /\ calls' = [calls EXCEPT !.connect = IF op = "reconnect" THEN @ + 1 ELSE @,
                                !.close = TRUE]
         /\ stats' = Inc(stats, "reconnection_count", IF op = "reconnect" THEN 1 ELSE 0)
         /\ ctl' = IF closed
                   THEN (IF op = "close" THEN Idle ELSE [op |-> op, pc |-> "sleep"])
                   ELSE [op |-> op, pc |-> "close_sentinel"]
    /\ closed' = TRUE
    /\ status' = IF closed THEN status ELSE CLOSED
    /\ UNCHANGED <<adapter, gw, factory, auth, backend, ws, conns, ext, stop, connected, audio_queue, result_queue, threads,
                   thr, psh, health, sent, delivered, emitted, run>>

\* close(): _audio_queue.put(None, timeout=1.0); a full queue is passed over
Google_close_sentinel ==
    /\ adapter = "google"
    /\ ctl.pc = "close_sentinel"
    /\ audio_queue' = IF Len(audio_queue) < QueueCap
                      THEN Append(audio_queue, None) ELSE audio_queue
    /\ ctl' = [ctl EXCEPT !.pc = "close_join"]
    /\ UNCHANGED <<adapter, gw, factory, auth, backend, ws, conns, ext, status, closed, stop, connected, result_queue, threads,
                   thr, psh, health, stats, sent, delivered, emitted, calls, run>>

\* close(): the joins have returned (the threads exited or 3 s passed);
\* _clear_queues() and return
Google_close_clear ==
    /\ adapter = "google"
    /\ ctl.pc = "close_join"
    /\ audio_queue' = <<>>
    /\ result_queue' = <<>>
    /\ calls' = [calls EXCEPT !.consumed = @ + Len(audio_queue)]
    /\ ctl' = IF ctl.op = "close" THEN Idle ELSE [ctl EXCEPT !.pc = "sleep"]
    /\ UNCHANGED <<adapter, gw, factory, auth, backend, ws, conns, ext, status, closed, stop, connected, threads,
                   thr, psh, health, stats, sent, delivered, emitted, run>>

----------------------------------------------------------------------------
(* GoogleSTTStream: push *)

\* push(): the _closed test
Google_push(limit, lens) ==
    /\ adapter = "google"
    /\ IF closed
       THEN PushCall(limit, lens, "idle", "false")
       ELSE PushCall(limit, lens, "put", "none")
    /\ UNCHANGED <<adapter, gw, factory, auth, backend, ws, conns, ext, status, closed, stop, connected, audio_queue, result_queue,
                   threads, thr, ctl, health, stats, sent, delivered, emitted, run>>

\* mutant: an accepted chunk is queued without being added to total_bytes_sent
PutAndReturn_uncounted ==
    /\ audio_queue' = Append(audio_queue, psh.chunk)
    /\ stats' = stats
    /\ status' = STREAMING
    /\ psh' = [psh EXCEPT !.pc = "idle", !.enq = TRUE, !.ret = "true"]
    /\ calls' = [calls EXCEPT !.accepted = @ + 1, !.bytes = @ + psh.chunk.len]

\* push(): _audio_queue.put(audio_data, timeout=1.0) with room in the queue,
\* statistics, _set_status(STREAMING), return True
PutAndReturn ==
    /\ audio_queue' = Append(audio_queue, psh.chunk)
    /\ stats' = Inc(stats, "total_bytes_sent", psh.chunk.len)
    /\ status' = STREAMING
    /\ psh' = [psh EXCEPT !.pc = "idle", !.enq = TRUE, !.ret = "true"]
    /\ calls' = [calls EXCEPT !.accepted = @ + 1, !.bytes = @ + psh.chunk.len]

\* mutant: the queue takes one item more than its capacity
Google_push_put_le ==
    /\ adapter = "google"
    /\ psh.pc = "put"
    /\ IF Len(audio_queue) <= QueueCap
       THEN PutAndReturn
       ELSE /\ psh' = [psh EXCEPT !.pc = "put_wait"]
            /\ UNCHANGED <<audio_queue, stats, status, calls>>
    /\ UNCHANGED <<adapter, gw, factory, auth, backend, ws, conns, ext, closed, stop, connected, result_queue, threads,
                   thr, ctl, health, sent, delivered, emitted, run>>

\* push(): the put() into a queue with room, or the caller starts to wait
\* for room
Google_push_put ==
    /\ adapter = "google"
    /\ psh.pc = "put"
    /\ IF Len(audio_queue) < QueueCap
       THEN PutAndReturn
       ELSE /\ psh' = [psh EXCEPT !.pc = "put_wait"]
            /\ UNCHANGED <<audio_queue, stats, status, calls>>
    /\ UNCHANGED <<adapter, gw, factory, auth, backend, ws, conns, ext, closed, stop, connected, result_queue, threads,
                   thr, ctl, health, sent, delivered, emitted, run>>

\* push(): the caller is waiting in put(); room appears
Google_push_wait_put ==
    /\ adapter = "google"
    /\ psh.pc = "put_wait"
    /\ Len(audio_queue) < QueueCap
    /\ PutAndReturn
    /\ UNCHANGED <<adapter, gw, factory, auth, backend, ws, conns, ext, closed, stop, connected, result_queue, threads,
                   thr, ctl, health, sent, delivered, emitted, run>>

\* push(): the wait in put() ends after 1 s with queue.Full; push() returns False
Google_push_wait_full ==
    /\ adapter = "google"
    /\ psh.pc = "put_wait"
    /\ PushReturn(FALSE)
    /\ UNCHANGED <<adapter, gw, factory, auth, backend, ws, conns, ext, status, closed, stop, connected, audio_queue, result_queue,
                   threads, thr, ctl, health, stats, sent, delivered, emitted, run>>

----------------------------------------------------------------------------
(* GoogleSTTStream: _recognition_worker and _result_worker *)

\* audio_generator: one turn of its loop with an item in the queue, or the
\* loop ends because _closed is set
Google_audio_generator ==
  \E t \in DOMAIN threads :
    /\ threads[t].kind = "rec" /\ threads[t].pc = "run" /\ threads[t].gen
    /\ closed \/ audio_queue # <<>>
    /\ IF closed
       THEN /\ threads' = [threads EXCEPT ![t].gen = FALSE]
            /\ UNCHANGED <<audio_queue, sent, calls>>
       ELSE /\ audio_queue' = Tail(audio_queue)
            /\ calls' = [calls EXCEPT !.consumed = @ + 1]
            /\ IF Head(audio_queue) = None
               THEN /\ threads' = [threads EXCEPT ![t].gen = FALSE]
                    /\ UNCHANGED sent
               ELSE /\ sent' = Append(sent, [chunk |-> Head(audio_queue).id, off |-> 0,
                                             st |-> 1, thread |-> t, conn |-> 0])
                    /\ UNCHANGED threads
    /\ UNCHANGED <<adapter, gw, factory, auth, backend, ws, conns, ext, status, closed, stop, connected, result_queue,
                   thr, ctl, psh, health, stats, delivered, emitted, run>>

\* _recognition_worker: one response of the backend; it ends the loop when
\* _closed is set, and is queued when its stripped transcript is not empty
Google_response(limit, bound, texts, varied, finals) ==
  \E t \in DOMAIN threads :
    /\ threads[t].kind = "rec" /\ threads[t].pc = "run"
    /\ calls.push + emitted < limit
    /\ Len(result_queue) < bound
    /\ emitted' = emitted + 1
    /\ \E raw \in (IF emitted < varied THEN texts ELSE {backend.utterance}),
          is_final \in (IF backend.finals < finals THEN BOOLEAN ELSE {FALSE}) :
       /\ backend' = [utterance |-> raw,
                      finals |-> backend.finals + (IF is_final THEN 1 ELSE 0),
                      pgs |-> "none", kind |-> "result"]
       /\ IF closed
          THEN /\ threads' = [threads EXCEPT ![t].pc = "exited"]
               /\ UNCHANGED result_queue
          ELSE /\ result_queue' =
                     IF Strip(raw) # <<>>
                     THEN Append(result_queue,
                              [kind |-> "result", transcript |-> Strip(raw),
                               is_final |-> is_final, timestamp |-> emitted + 1])
                     ELSE result_queue
               /\ UNCHANGED threads
    /\ UNCHANGED <<adapter, gw, factory, auth, ws, conns, ext, status, closed, stop, connected, audio_queue,
                   thr, ctl, psh, health, stats, sent, delivered, calls, run>>

\* _recognition_worker: streaming_recognize raises; the error is queued and
\* the worker finishes
Google_recognition_error ==
  \E t \in DOMAIN threads :
    /\ threads[t].kind = "rec" /\ threads[t].pc = "run"
    /\ result_queue' = Append(result_queue, [NoRes EXCEPT !.kind = "error"])
    /\ threads' = [threads EXCEPT ![t].pc = "exited"]
    /\ UNCHANGED <<adapter, gw, factory, auth, backend, ws, conns, ext, status, closed, stop, connected, audio_queue,
                   thr, ctl, psh, health, stats, sent, delivered, emitted, calls, run>>

\* _recognition_worker: the responses end after the requests have ended
Google_recognition_end ==
  \E t \in DOMAIN threads :
    /\ threads[t].kind = "rec" /\ threads[t].pc = "run" /\ ~threads[t].gen
    /\ threads' = [threads EXCEPT ![t].pc = "exited"]
    /\ UNCHANGED <<adapter, gw, factory, auth, backend, ws, conns, ext, status, closed, stop, connected, audio_queue, result_queue,
                   thr, ctl, psh, health, stats, sent, delivered, emitted, calls, run>>

\* _result_worker: one turn of its loop up to the item taken from the queue
Google_result_get ==
  \E t \in DOMAIN threads :
    /\ threads[t].kind = "res" /\ threads[t].pc = "idle"
    /\ closed \/ result_queue # <<>>
    /\ IF closed
       THEN /\ threads' = [threads EXCEPT ![t].pc = "exited"]
            /\ UNCHANGED result_queue
       ELSE /\ result_queue' = Tail(result_queue)
            /\ threads' = IF Head(result_queue).kind = "error"
                          THEN [threads EXCEPT ![t].pc = "exited"]
                          ELSE [threads EXCEPT ![t].pc = "got",
                                               ![t].res = Head(result_queue)]
    /\ UNCHANGED <<adapter, gw, factory, auth, backend, ws, conns, ext, status, closed, stop, connected, audio_queue,
                   thr, ctl, psh, health, stats, sent, delivered, emitted, calls, run>>

\* the run of identical consecutive partial reports after one more report,
\* and the latest report of each kind
NextRun(text, is_final) ==
    LET r == [run EXCEPT !.prev_partial = IF is_final THEN @ ELSE text,
                         !.prev_final = IF is_final THEN text ELSE @]
    IN  IF is_final THEN [r EXCEPT !.text = <<>>, !.n = 0]
        ELSE IF text = run.text THEN [r EXCEPT !.n = @ + 1]
        ELSE [r EXCEPT !.text = text, !.n = 1]

\* _handle_transcript called with some text, empty or not, of either kind
Google_handle_transcript(limit, texts) ==
    /\ adapter = "google"
    /\ emitted < limit
    /\ \E text \in texts, is_final \in BOOLEAN :
         /\ health' = HandleTranscript(health, text, is_final).h
         /\ run' = NextRun(text, is_final)
         /\ backend' = [utterance |-> text,
                        finals |-> backend.finals + (IF is_final THEN 1 ELSE 0),
                      pgs |-> "none", kind |-> "result"]
    /\ emitted' = emitted + 1
    /\ UNCHANGED <<adapter, gw, factory, auth, ws, conns, ext, status, closed, stop, connected, audio_queue,
                   result_queue, threads, thr, ctl, psh, stats, sent, delivered, calls>>

\* _result_worker: _handle_transcript on the item taken, then the callback,
\* or the end of the worker when the health check fails; raising: whether
\* the caller's callback may raise
Google_result_handle(raising) ==
  \E t \in DOMAIN threads, raises \in raising :
    /\ threads[t].kind = "res" /\ threads[t].pc = "got"
    /\ LET r == threads[t].res
           h == HandleTranscript(health, r.transcript, r.is_final)
       IN  /\ health' = h.h
           /\ run' = NextRun(r.transcript, r.is_final)
           /\ IF h.ok
              THEN /\ Callback(r.transcript, r.is_final, r.timestamp, raises)
                   /\ threads' = [threads EXCEPT ![t].pc = "idle", ![t].res = NoRes]
              ELSE /\ threads' = [threads EXCEPT ![t].pc = "exited", ![t].res = NoRes]
                   /\ UNCHANGED <<delivered, stats>>
    /\ UNCHANGED <<adapter, gw, factory, auth, backend, ws, conns, ext, status, closed, stop, connected, audio_queue, result_queue,
                   thr, ctl, psh, sent, emitted, calls>>

----------------------------------------------------------------------------
(* IflytekSTTStream *)

frame_size == 1280

\* str.endswith
EndsWith(t, suffix) ==
    Len(suffix) <= Len(t) /\ SubSeq(t, Len(t) - Len(suffix) + 1, Len(t)) = suffix

\* _update_aggregate_text, on the text _parse_result_text gives
UpdateAggregateText(current, text, pgs) ==
    IF text = <<>> THEN current
    ELSE IF pgs \in {"apd", "none"} THEN current \o text
    ELSE IF pgs = "rpl"
         THEN LET candidate == current \o text
              IN  IF EndsWith(candidate, text \o text) THEN current \o text ELSE candidate
    ELSE current

\* a character in the range U+4E00..U+9FFF
HAN == "U+4E2D"
IsHan(ch) == ch = HAN

\* _detect_lang
DetectLang(text) ==
    IF \E i \in DOMAIN text : IsHan(text[i]) THEN "zh-CN" ELSE "en-US"

\* The constructor's hosturl, as urlparse splits it
HostUrl(hostname, port) ==
    [scheme |-> "wss", hostname |-> hostname, port |-> port, path |-> "/v2/iat"]

Credentials(api_key, api_secret, hosturl) ==
    [appid |-> "appid", api_key |-> api_key, api_secret |-> api_secret,
     hosturl |-> hosturl]

InitAuth ==
    [cred |-> Credentials("key1", "secret1", HostUrl("example.com", 0)),
     now |-> 0, built |-> <<>>, language |-> "zh_cn"]

\* _rfc1123_date: the clock counts the seconds (less than ten) since
\* 2021-01-01 00:00:00 UTC
Rfc1123Date(now) == <<"Fri, 01 Jan 2021 00:00:0", now, " GMT">>

\* hmac.new(key, msg, sha256).digest() and base64.b64encode, as terms: equal
\* terms for equal arguments, different terms for different arguments
HmacSha256(key, msg) == [hmac_sha256 |-> msg, key |-> key]
B64Encode(data) == [b64 |-> data]
B64Decode(str) == str.b64

\* bytes are named by the chunk they belong to and their position in it:
\* the bytes from..to-1 of chunk id; no bytes at all
NoBytes == [id |-> 0, from |-> 0, to |-> 0]

\* mutant: a piece is always frame_size bytes long
Piece_whole(chunk, offset) ==
    [id |-> chunk.id, from |-> offset, to |-> offset + frame_size]

\* chunk[offset: offset + frame_size]
Piece(chunk, offset) ==
    [id |-> chunk.id, from |-> IF offset < chunk.len THEN offset ELSE chunk.len,
     to |-> IF offset + frame_size < chunk.len THEN offset + frame_size ELSE chunk.len]

\* mutant: the API key is mixed into the signing key
BuildAuthUrl_keyed(a) ==
    LET host == a.cred.hosturl.hostname
        path == a.cred.hosturl.path
        date == Rfc1123Date(a.now)
        signature_origin == <<"host: ", host, "\ndate: ", date, "\nGET ", path, " HTTP/1.1">>
        signature == B64Encode(HmacSha256(<<a.cred.api_secret, a.cred.api_key>>,
                                          signature_origin))
    IN  [host |-> host, path |-> path, date |-> date, api_secret |-> a.cred.api_secret,
         api_key |-> a.cred.api_key, signature |-> signature,
         authorization |-> B64Encode(<<a.cred.api_key, "hmac-sha256",
                                       "host date request-line", signature>>)]

\* _build_auth_url: the signature and the authorization parameter of the URL,
\* with the values they were computed from
BuildAuthUrl(a) ==
    LET host == a.cred.hosturl.hostname
        path == a.cred.hosturl.path
        date == Rfc1123Date(a.now)
        signature_origin == <<"host: ", host, "\ndate: ", date, "\nGET ", path, " HTTP/1.1">>
        signature == B64Encode(HmacSha256(a.cred.api_secret, signature_origin))
    IN  [host |-> host, path |-> path, date |-> date, api_secret |-> a.cred.api_secret,
         api_key |-> a.cred.api_key, signature |-> signature,
         authorization |-> B64Encode(<<a.cred.api_key, "hmac-sha256",
                                       "host date request-line", signature>>)]

\* the history of built URLs keeps the latest MaxBuilt
Built(a) ==
    LET all == Append(a.built, BuildAuthUrl(a))
    IN  IF Len(all) > MaxBuilt THEN Tail(all) ELSE all

\* connect(), also as the last part of _reconnect(): CONNECTING, the flags
\* are reset, the URL is signed, a new WebSocketApp, the WS thread and the
\* sender thread start
Iflytek_connect ==
    /\ adapter = "iflytek"
    /\ ctl.pc \in {"idle", "sleep"}
    /\ ctl.pc = "idle" => calls.connect < MaxConnect
    /\ ctl' = [op |-> IF ctl.pc = "idle" THEN "connect" ELSE ctl.op, pc |-> "wait"]
    /\ calls' = [calls EXCEPT !.connect = IF ctl.pc = "idle" THEN @ + 1 ELSE @]
    /\ status' = CONNECTING
    /\ stop' = FALSE
    /\ closed' = FALSE
    /\ ext' = [ext EXCEPT !.first_frame_sent = FALSE]
    /\ conns' = Append(conns, "connecting")
    /\ ws' = Len(conns) + 1
    /\ threads' = threads \o <<Thread("ws", "run", Len(conns) + 1),
                               Thread("sender", "idle", 0)>>
    /\ thr' = [thr EXCEPT !.ws_thread = Len(threads) + 1,
                          !.sender_thread = Len(threads) + 2]
    /\ auth' = [auth EXCEPT !.built = Built(auth)]
    /\ UNCHANGED <<adapter, gw, factory, backend, connected, audio_queue, result_queue,
                   psh, health, stats, sent, delivered, emitted, run>>

\* connect(): the wait loop ends: _connected_event is set (CONNECTED, True),
\* or the status is ERROR or 10 s have passed (ERROR, False)
Iflytek_connect_wait ==
    /\ adapter = "iflytek"
    /\ ctl.pc = "wait"
    /\ IF connected
       THEN /\ status' = CONNECTED
            /\ stats' = Inc(stats, "connection_count", 1)
            /\ calls' = [calls EXCEPT !.connected = @ + 1,
                                      !.reconnected = IF ctl.op = "reconnect" THEN @ + 1 ELSE @]
       ELSE /\ status' = ERROR
            /\ UNCHANGED <<stats, calls>>
    /\ ctl' = Idle
    /\ UNCHANGED <<adapter, gw, factory, auth, backend, ws, conns, ext, closed, stop, connected, audio_queue,
                   result_queue, threads, thr, psh, health, sent, delivered,
                   emitted, run>>

\* _on_open
Iflytek_on_open ==
  \E t \in DOMAIN threads :
    /\ threads[t].kind = "ws" /\ threads[t].pc = "run"
    /\ conns[threads[t].conn] = "connecting"
    /\ conns' = [conns EXCEPT ![threads[t].conn] = "open"]
    /\ connected' = TRUE
    /\ UNCHANGED <<adapter, gw, factory, auth, backend, ws, ext, status, closed, stop, audio_queue, result_queue,
                   threads, thr, ctl, psh, health, stats, sent, delivered, emitted,
                   calls, run>>

\* _on_error, after which run_forever ends; a connection that fails before
\* its handshake is "failed"
Iflytek_on_error ==
  \E t \in DOMAIN threads :
    /\ threads[t].kind = "ws" /\ threads[t].pc = "run"
    /\ conns[threads[t].conn] \in {"connecting", "open"}
    /\ conns' = [conns EXCEPT ![threads[t].conn] =
                     IF @ = "connecting" THEN "failed" ELSE "closed"]
    /\ threads' = [threads EXCEPT ![t].pc = "exited"]
    /\ stats' = Inc(stats, "total_errors", 1)
    /\ status' = ERROR
    /\ UNCHANGED <<adapter, gw, factory, auth, backend, ws, ext, closed, stop, connected, audio_queue, result_queue,
                   thr, ctl, psh, health, sent, delivered, emitted, calls, run>>

\* _on_close: the server or ws.close() has closed the connection
Iflytek_on_close ==
  \E t \in DOMAIN threads :
    /\ threads[t].kind = "ws" /\ threads[t].pc = "run"
    /\ conns[threads[t].conn] \in {"open", "closing"}
    /\ conns' = [conns EXCEPT ![threads[t].conn] = "closed"]
    /\ threads' = [threads EXCEPT ![t].pc = "exited"]
    /\ status' = IF closed THEN status ELSE ERROR
    /\ UNCHANGED <<adapter, gw, factory, auth, backend, ws, ext, closed, stop, connected, audio_queue, result_queue,
                   thr, ctl, psh, health, stats, sent, delivered, emitted, calls, run>>

\* _on_message for a message with code 0: nothing is done when the result
\* holds no text; otherwise aggregation, the partial callback when the text
\* changed, and on status 2 the final callback and the reset
Iflytek_on_message(limit, msgs) ==
  \E t \in DOMAIN threads, m \in msgs :
    /\ threads[t].kind = "ws" /\ threads[t].pc = "run"
    /\ conns[threads[t].conn] \in {"open", "closing"}
    /\ calls.push + emitted < limit
    /\ emitted' = emitted + 1
    /\ backend' = [utterance |-> m.text,
                   finals |-> backend.finals + (IF m.status = 2 THEN 1 ELSE 0),
                   pgs |-> m.pgs, kind |-> "result"]
    /\ IF m.text = <<>>
       THEN UNCHANGED <<ext, delivered, stats>>
       ELSE LET agg == UpdateAggregateText(ext.agg_text, m.text, m.pgs)
                current_partial == IF agg # <<>> THEN agg ELSE m.text
                partial == IF current_partial # ext.last_partial
                           THEN <<[text |-> current_partial, is_final |-> FALSE,
                                   timestamp |-> emitted + 1, raises |-> FALSE]>>
                           ELSE <<>>
                final == IF m.status = 2
                         THEN <<[text |-> current_partial, is_final |-> TRUE,
                                 timestamp |-> emitted + 1, raises |-> FALSE]>>
                         ELSE <<>>
            IN  /\ Callbacks(partial \o final)
                /\ ext' = IF m.status = 2
                          THEN [ext EXCEPT !.agg_text = <<>>, !.last_partial = <<>>,
                                           !.language_code = DetectLang(m.text)]
                          ELSE [ext EXCEPT !.agg_text = agg,
                                           !.last_partial = current_partial,
                                           !.language_code = DetectLang(m.text)]
    /\ UNCHANGED <<adapter, gw, factory, auth, ws, conns, status, closed, stop, connected, audio_queue,
                   result_queue, threads, thr, ctl, psh, health, sent, calls, run>>

\* _handle_error sets ERROR when the text of the error holds "connection" or
\* "timeout": the texts of the JSON and attribute errors do not, the text of
\* an error frame holds the message of the server
\* mutant: every error is severe
SevereError_all(kind) == TRUE

SevereError(kind) == kind = "error_timeout"

\* _on_message for a message that is not a result with code 0: text that is
\* not JSON or a data field that is null (an exception, counted), an error
\* frame (code other than 0 or absent: counted, ERROR when severe), no data
\* or no result (nothing is done)
Iflytek_on_bad_message(limit, kinds) ==
  \E t \in DOMAIN threads, kind \in kinds :
    /\ threads[t].kind = "ws" /\ threads[t].pc = "run"
    /\ conns[threads[t].conn] \in {"open", "closing"}
    /\ calls.push + emitted < limit
    /\ emitted' = emitted + 1
    /\ backend' = [backend EXCEPT !.utterance = <<>>, !.pgs = "none", !.kind = kind]
    /\ IF kind \in {"no_data", "no_result"}
       THEN UNCHANGED <<stats, status>>
       ELSE /\ stats' = Inc(stats, "total_errors", 1)
            /\ status' = IF SevereError(kind) THEN ERROR ELSE status
    /\ UNCHANGED <<adapter, gw, factory, auth, ws, conns, ext, closed, stop, connected, audio_queue,
                   result_queue, threads, thr, ctl, psh, health, sent, delivered, calls, run>>

\* push(): the test of _closed (the test of empty data is made with the put)
Iflytek_push(limit, lens) ==
    /\ adapter = "iflytek"
    /\ IF closed
       THEN PushCall(limit, lens, "idle", "false")
       ELSE PushCall(limit, lens, "put", "none")
    /\ UNCHANGED <<adapter, gw, factory, auth, backend, ws, conns, ext, status, closed, stop, connected, audio_queue,
                   result_queue, threads, thr, ctl, health, stats, sent, delivered,
                   emitted, run>>

\* push(): returns False for empty data; otherwise put_nowait, which either queues the chunk (STREAMING, statistics, True)
\* or raises queue.Full (False)
Iflytek_push_put ==
    /\ adapter = "iflytek"
    /\ psh.pc = "put"
    /\ IF psh.chunk.len > 0 /\ Len(audio_queue) < QueueCap
       THEN PutAndReturn
       ELSE /\ PushReturn(FALSE)
            /\ UNCHANGED <<audio_queue, stats, status>>
    /\ UNCHANGED <<adapter, gw, factory, auth, backend, ws, conns, ext, closed, stop, connected, result_queue, threads,
                   thr, ctl, health, sent, delivered, emitted, run>>

\* _sender_worker: one turn of the outer loop: the stop test, an item taken
Iflytek_sender_get ==
  \E t \in DOMAIN threads :
    /\ threads[t].kind = "sender" /\ threads[t].pc = "idle"
    /\ stop \/ audio_queue # <<>>
    /\ IF stop
       THEN /\ threads' = [threads EXCEPT ![t].pc = "exited"]
            /\ UNCHANGED <<audio_queue, calls>>
       ELSE /\ audio_queue' = Tail(audio_queue)
            /\ calls' = [calls EXCEPT !.consumed = @ + 1]
            /\ threads' = IF Head(audio_queue) = None
                          THEN [threads EXCEPT ![t].pc = "exited"]
                          ELSE [threads EXCEPT ![t].pc = "send", ![t].off = 0,
                                               ![t].chunk = Head(audio_queue)]
    /\ UNCHANGED <<adapter, gw, factory, auth, backend, ws, conns, ext, status, closed, stop, connected, result_queue,
                   thr, ctl, psh, health, stats, sent, delivered, emitted, run>>

\* _sender_worker: the test of the inner loop and the frame built for the next
\* piece of the chunk: status 0 with the common and business blocks while
\* _first_frame_sent is unset, status 1 with the data block alone after it
Iflytek_sender_frame ==
  \E t \in DOMAIN threads :
    /\ threads[t].kind = "sender" /\ threads[t].pc = "send"
    /\ LET th == threads[t]
       IN  IF th.off < th.chunk.len /\ ~stop
           THEN threads' = [threads EXCEPT ![t].pc = "ws_send",
                                           ![t].off = @ + frame_size,
                                           ![t].st = IF ext.first_frame_sent THEN 1 ELSE 0]
           ELSE threads' = [threads EXCEPT ![t].pc = "idle", ![t].chunk = None,
                                           ![t].off = 0]
    /\ UNCHANGED <<adapter, gw, factory, auth, backend, ws, conns, ext, status, closed, stop, connected,
                   audio_queue, result_queue, thr, ctl, psh, health, stats, sent,
                   delivered, emitted, calls, run>>

\* _sender_worker: the frame is sent on _ws and _first_frame_sent is set; a
\* failed send sets ERROR and drops the rest of the chunk
Iflytek_sender_send ==
  \E t \in DOMAIN threads :
    /\ threads[t].kind = "sender" /\ threads[t].pc = "ws_send"
    /\ LET th == threads[t]
       IN  IF conns[ws] = "open"
           THEN /\ sent' = Append(sent,
                       [chunk |-> th.chunk.id, off |-> th.off - frame_size,
                        st |-> th.st, thread |-> t, conn |-> ws,
                        audio |-> B64Encode(Piece(th.chunk, th.off - frame_size))])
                /\ ext' = [ext EXCEPT !.first_frame_sent = TRUE]
                /\ threads' = [threads EXCEPT ![t].pc = "send"]
                /\ UNCHANGED <<stats, status>>
           ELSE /\ stats' = Inc(stats, "total_errors", 1)
                /\ status' = ERROR
                /\ threads' = [threads EXCEPT ![t].pc = "idle", ![t].chunk = None,
                                              ![t].off = 0]
                /\ UNCHANGED <<sent, ext>>
    /\ UNCHANGED <<adapter, gw, factory, auth, backend, ws, conns, closed, stop, connected, audio_queue, result_queue,
                   thr, ctl, psh, health, delivered, emitted, calls, run>>

\* close(), also as the first part of _reconnect(): returns at once when
\* _closed is set; otherwise sets it and _stop_event, sends the end frame
\* (status 2, no audio) on _ws if there is one (a failed send is passed over),
\* queues None for a live sender thread unless the queue is full, and joins
Iflytek_close ==
    /\ adapter = "iflytek"
    /\ ctl.pc = "idle"
    /\ \E op \in {"close", "reconnect"} :
         /\ op = "reconnect" => calls.connect < MaxConnect
         /\ calls' = [calls EXCEPT !.connect = IF op = "reconnect" THEN @ + 1 ELSE @,
                                !.close = TRUE]
         /\ ctl' = IF closed
                   THEN (IF op = "close" THEN Idle ELSE [op |-> op, pc |-> "sleep"])
                   ELSE [op |-> op, pc |-> "join"]
    /\ IF closed
       THEN UNCHANGED <<closed, stop, sent, audio_queue>>
       ELSE /\ closed' = TRUE
            /\ stop' = TRUE
            /\ sent' = IF ws # 0 /\ conns[ws] = "open"
                       THEN Append(sent, [chunk |-> 0, off |-> 0, st |-> 2,
                                          thread |-> 0, conn |-> ws,
                                          audio |-> B64Encode(NoBytes)])
                       ELSE sent
            /\ audio_queue' = IF IsAlive(thr.sender_thread)
                                 /\ Len(audio_queue) < QueueCap
                              THEN Append(audio_queue, None) ELSE audio_queue
    /\ UNCHANGED <<adapter, gw, factory, auth, backend, ws, conns, ext, status, connected, result_queue,
                   threads, thr, psh, health, stats, delivered, emitted, run>>

\* close(): the join has returned (the sender exited or 2 s passed);
\* _ws.close() and _set_status(CLOSED)
Iflytek_close_finish ==
    /\ adapter = "iflytek"
    /\ ctl.pc = "join"
    /\ conns' = IF ws # 0 /\ conns[ws] \in {"connecting", "open"}
                THEN [conns EXCEPT ![ws] = "closing"] ELSE conns
    /\ status' = CLOSED
    /\ ctl' = IF ctl.op = "close" THEN Idle ELSE [ctl EXCEPT !.pc = "sleep"]
    /\ UNCHANGED <<adapter, gw, factory, auth, backend, ws, ext, closed, stop, connected, audio_queue, result_queue,
                   threads, thr, psh, health, stats, sent, delivered, emitted, calls, run>>

IflytekMsgs == {[code |-> 0, status |-> st, text |-> Hello, pgs |-> "apd"] : st \in {1, 2}}

----------------------------------------------------------------------------
(* DeepgramSTTStream *)

max_reconnect_attempts == 5
max_repeats == 3

\* connect() and _reconnect() run in the thread of their caller: the
\* controller, or the pusher when push() finds the status ERROR
Callers == {"ctl", "psh"}
PcOf(who) == IF who = "ctl" THEN ctl.pc ELSE psh.pc

\* push(): put_nowait on the unbounded queue, STREAMING, True
DeepgramPut ==
    /\ audio_queue' = Append(audio_queue, psh.chunk)
    /\ status' = STREAMING
    /\ psh' = [psh EXCEPT !.pc = "idle", !.enq = TRUE, !.ret = "true"]
    /\ calls' = [calls EXCEPT !.accepted = @ + 1, !.bytes = @ + psh.chunk.len]

\* _health_check_transcript: the new <<_repeat_count, _last_text>> and the
\* verdict
HealthCheckTranscript(h, text, is_final) ==
    IF is_final
    THEN [h |-> [h EXCEPT !.repeat_count = 0, !.last_transcript = text], ok |-> TRUE]
    ELSE IF text = h.last_transcript
    THEN [h |-> [h EXCEPT !.repeat_count = @ + 1],
          ok |-> ~(h.repeat_count + 1 > max_repeats)]
    ELSE [h |-> [h EXCEPT !.repeat_count = 0, !.last_transcript = text], ok |-> TRUE]

\* connect(), also as the last part of _reconnect(): CONNECTING, and
\* _should_stop is set for a live loop thread, which is then joined
Deepgram_connect ==
    /\ adapter = "deepgram"
    /\ \E who \in Callers :
         /\ PcOf(who) = "sleep" \/ (who = "ctl" /\ ctl.pc = "idle")
         /\ ctl.pc = "idle" /\ who = "ctl" => calls.connect < MaxConnect
         /\ IF who = "ctl"
            THEN /\ ctl' = [op |-> IF ctl.pc = "idle" THEN "connect" ELSE ctl.op,
                            pc |-> "start"]
                 /\ calls' = [calls EXCEPT !.connect = IF ctl.pc = "idle" THEN @ + 1 ELSE @]
                 /\ UNCHANGED psh
            ELSE /\ psh' = [psh EXCEPT !.pc = "start"]
                 /\ UNCHANGED <<ctl, calls>>
    /\ status' = CONNECTING
    /\ stop' = IF IsAlive(thr.loop_thread) THEN TRUE ELSE stop
    /\ UNCHANGED <<adapter, gw, factory, auth, backend, ws, conns, ext, closed, connected, audio_queue, result_queue,
                   threads, thr, health, stats, sent, delivered, emitted, run>>

\* connect(): the join has returned (the old thread exited or 3 s passed);
\* _should_stop is cleared and a new loop thread starts
Deepgram_connect_start ==
    /\ adapter = "deepgram"
    /\ \E who \in Callers :
         /\ PcOf(who) = "start"
         /\ IF who = "ctl"
            THEN ctl' = [ctl EXCEPT !.pc = "wait"] /\ UNCHANGED psh
            ELSE psh' = [psh EXCEPT !.pc = "wait"] /\ UNCHANGED ctl
    /\ stop' = FALSE
    /\ threads' = Append(threads, Thread("loop", "start", 0))
    /\ thr' = [thr EXCEPT !.loop_thread = Len(threads) + 1]
    /\ UNCHANGED <<adapter, gw, factory, auth, backend, ws, conns, ext, status, closed, connected, audio_queue,
                   result_queue, health, stats, sent, delivered, emitted, calls, run>>

\* connect(): the wait loop ends: CONNECTED seen (True), ERROR seen (False),
\* or 10 s passed (ERROR, an error counted, False).  push() goes on with its
\* put when its _reconnect() returned True
Deepgram_connect_wait ==
    /\ adapter = "deepgram"
    /\ \E who \in Callers :
         /\ PcOf(who) = "wait"
         /\ IF who = "ctl"
            THEN /\ ctl' = Idle
                 /\ status' = IF status = CONNECTED THEN status ELSE ERROR
                 /\ calls' = [calls EXCEPT
                                !.connected = IF status = CONNECTED THEN @ + 1 ELSE @]
                 /\ UNCHANGED <<psh, audio_queue>>
            ELSE /\ IF status = CONNECTED
                    THEN DeepgramPut
                    ELSE /\ PushReturn(FALSE)
                         /\ status' = ERROR
                         /\ UNCHANGED audio_queue
                 /\ UNCHANGED ctl
    /\ stats' = IF status \in {CONNECTED, ERROR} THEN stats
                ELSE Inc(stats, "total_errors", 1)
    /\ UNCHANGED <<adapter, gw, factory, auth, backend, ws, conns, ext, closed, stop, connected, result_queue,
                   threads, thr, health, sent, delivered, emitted, run>>

\* _reconnect() called on the session: gives up at max_reconnect_attempts,
\* otherwise counts the attempt and sleeps reconnect_delay (the un-awaited
\* connection.finish() has no effect)
Deepgram_reconnect ==
    /\ adapter = "deepgram"
    /\ ctl.pc = "idle"
    /\ calls.connect < MaxConnect
    /\ calls' = [calls EXCEPT !.connect = @ + 1]
    /\ IF ext.current_reconnect_attempts >= max_reconnect_attempts
       THEN UNCHANGED <<ctl, ext, stats>>
       ELSE /\ ctl' = [op |-> "reconnect", pc |-> "sleep"]
            /\ ext' = [ext EXCEPT !.current_reconnect_attempts = @ + 1]
            /\ stats' = Inc(stats, "reconnection_count", 1)
    /\ UNCHANGED <<adapter, gw, factory, auth, backend, ws, conns, status, closed, stop, connected, audio_queue,
                   result_queue, threads, thr, psh, health, sent, delivered, emitted, run>>

\* close(): _should_stop is set, connection.finish() is scheduled on the
\* loop, and the loop thread is joined
Deepgram_close ==
    /\ adapter = "deepgram"
    /\ ctl.pc = "idle"
    /\ ctl' = [op |-> "close", pc |-> "join"]
    /\ stop' = TRUE
    /\ calls' = [calls EXCEPT !.close = TRUE]
    /\ conns' = IF ws # 0 /\ conns[ws] = "open"
                THEN [conns EXCEPT ![ws] = "finishing"] ELSE conns
    /\ UNCHANGED <<adapter, gw, factory, auth, backend, ws, ext, status, closed, connected, audio_queue, result_queue,
                   threads, thr, psh, health, stats, sent, delivered, emitted, run>>

\* close(): the join has returned (the thread exited or 3 s passed);
\* connection = None and _set_status(CLOSED)
Deepgram_close_finish ==
    /\ adapter = "deepgram"
    /\ ctl.pc = "join"
    /\ ctl' = Idle
    /\ ws' = 0
    /\ status' = CLOSED
    /\ UNCHANGED <<adapter, gw, factory, auth, backend, conns, ext, closed, stop, connected, audio_queue, result_queue,
                   threads, thr, psh, health, stats, sent, delivered, emitted, calls, run>>

\* push(): True at once for empty data; _reconnect() first when the status
\* is ERROR (False when it gives up); otherwise the put
Deepgram_push(limit, lens) ==
    /\ adapter = "deepgram"
    /\ psh.pc = "idle"
    /\ calls.push + emitted < limit
    /\ \E n \in lens :
         LET call == [pc |-> "idle", chunk |-> [id |-> calls.push + 1, len |-> n],
                      onClosed |-> (status = CLOSED), enq |-> FALSE, ret |-> "none"]
         IN  IF n = 0
             THEN /\ psh' = [call EXCEPT !.ret = "true"]
                  /\ calls' = [calls EXCEPT !.push = @ + 1, !.accepted = @ + 1]
                  /\ UNCHANGED <<audio_queue, status, ext, stats>>
             ELSE IF status = ERROR
             THEN IF ext.current_reconnect_attempts >= max_reconnect_attempts
                  THEN /\ psh' = [call EXCEPT !.ret = "false"]
                       /\ calls' = [calls EXCEPT !.push = @ + 1]
                       /\ UNCHANGED <<audio_queue, status, ext, stats>>
                  ELSE /\ calls.connect < MaxConnect
                       /\ psh' = [call EXCEPT !.pc = "sleep"]
                       /\ calls' = [calls EXCEPT !.push = @ + 1, !.connect = @ + 1]
                       /\ ext' = [ext EXCEPT !.current_reconnect_attempts = @ + 1]
                       /\ stats' = Inc(stats, "reconnection_count", 1)
                       /\ UNCHANGED <<audio_queue, status>>
             ELSE /\ psh' = [call EXCEPT !.enq = TRUE, !.ret = "true"]
                  /\ calls' = [calls EXCEPT !.push = @ + 1, !.accepted = @ + 1,
                                            !.bytes = @ + n]
                  /\ audio_queue' = Append(audio_queue, call.chunk)
                  /\ status' = STREAMING
                  /\ UNCHANGED <<ext, stats>>
    /\ UNCHANGED <<adapter, gw, factory, auth, backend, ws, conns, closed, stop, connected, result_queue, threads,
                   thr, ctl, health, sent, delivered, emitted, run>>

\* _async_connect_and_listen: the connection object is made and started:
\* CONNECTED and the two coroutines run, or ERROR and the thread ends
Deepgram_loop_start ==
  \E t \in DOMAIN threads, ok \in BOOLEAN :
    /\ threads[t].kind = "loop" /\ threads[t].pc = "start"
    /\ conns' = Append(conns, IF ok THEN "open" ELSE "closed")
    /\ ws' = Len(conns) + 1
    /\ threads' = [threads EXCEPT ![t].pc = IF ok THEN "run" ELSE "exited",
                                  ![t].conn = Len(conns) + 1]
    /\ status' = IF ok THEN CONNECTED ELSE ERROR
    /\ stats' = IF ok THEN Inc(stats, "connection_count", 1)
                ELSE Inc(stats, "total_errors", 1)
    /\ ext' = IF ok THEN [ext EXCEPT !.current_reconnect_attempts = 0] ELSE ext
    /\ UNCHANGED <<adapter, gw, factory, auth, backend, closed, stop, connected, audio_queue, result_queue, thr,
                   ctl, psh, health, sent, delivered, emitted, calls, run>>

\* _audio_sender: one turn that finds a chunk: it is sent on the current
\* connection, or dropped when there is none
Deepgram_audio_sender ==
  \E t \in DOMAIN threads :
    /\ threads[t].kind = "loop" /\ threads[t].pc = "run"
    /\ ~stop
    /\ audio_queue # <<>>
    /\ audio_queue' = Tail(audio_queue)
    /\ calls' = [calls EXCEPT !.consumed = @ + 1]
    /\ IF ws # 0
       THEN /\ sent' = IF conns[ws] = "open"
                       THEN Append(sent, [chunk |-> Head(audio_queue).id, off |-> 0,
                                          st |-> 1, thread |-> t, conn |-> ws])
                       ELSE sent
            /\ stats' = Inc(stats, "total_bytes_sent", Head(audio_queue).len)
       ELSE UNCHANGED <<sent, stats>>
    /\ UNCHANGED <<adapter, gw, factory, auth, backend, ws, conns, ext, status, closed, stop, connected, result_queue,
                   threads, thr, ctl, psh, health, delivered, emitted, run>>

\* _audio_sender and _keep_alive both see _should_stop: the loop thread ends
Deepgram_loop_exit ==
  \E t \in DOMAIN threads :
    /\ threads[t].kind = "loop" /\ threads[t].pc = "run"
    /\ stop
    /\ threads' = [threads EXCEPT ![t].pc = "exited"]
    /\ UNCHANGED <<adapter, gw, factory, auth, backend, ws, conns, ext, status, closed, stop, connected, audio_queue,
                   result_queue, thr, ctl, psh, health, stats, sent, delivered, emitted,
                   calls, run>>

\* _on_message for a transcript event
Deepgram_on_message(limit, msgs) ==
  \E t \in DOMAIN threads, m \in msgs :
    /\ threads[t].kind = "loop" /\ threads[t].pc = "run"
    /\ conns[threads[t].conn] \in {"open", "finishing"}
    /\ calls.push + emitted < limit
    /\ emitted' = emitted + 1
    /\ backend' = [utterance |-> m.transcript,
                   finals |-> backend.finals
                                + (IF m.is_final \/ m.speech_final THEN 1 ELSE 0),
                   pgs |-> "none", kind |-> "result"]
    /\ IF Strip(m.transcript) # <<>>
       THEN LET r == HealthCheckTranscript(health, m.transcript, m.is_final)
            IN  /\ health' = r.h
                /\ IF r.ok
                   THEN Callback(m.transcript, m.is_final \/ m.speech_final, emitted + 1,
                                 FALSE)
                   ELSE UNCHANGED <<delivered, stats>>
       ELSE UNCHANGED <<health, delivered, stats>>
    /\ UNCHANGED <<adapter, gw, factory, auth, ws, conns, ext, status, closed, stop, connected, audio_queue,
                   result_queue, threads, thr, ctl, psh, sent, calls, run>>

\* _on_close: the connection has closed (by the server, or after finish())
Deepgram_on_close ==
  \E t \in DOMAIN threads :
    /\ threads[t].kind = "loop" /\ threads[t].pc = "run"
    /\ conns[threads[t].conn] \in {"open", "finishing"}
    /\ conns' = [conns EXCEPT ![threads[t].conn] = "closed"]
    /\ status' = IF status # CLOSED THEN DISCONNECTED ELSE status
    /\ UNCHANGED <<adapter, gw, factory, auth, backend, ws, ext, closed, stop, connected, audio_queue, result_queue,
                   threads, thr, ctl, psh, health, stats, sent, delivered, emitted,
                   calls, run>>

\* _on_error: an error is counted, and the status is ERROR when the message
\* of the error names a connection or a timeout
Deepgram_on_error(limit) ==
  \E t \in DOMAIN threads, severe \in BOOLEAN :
    /\ threads[t].kind = "loop" /\ threads[t].pc = "run"
    /\ conns[threads[t].conn] = "open"
    /\ calls.push + emitted < limit
    /\ emitted' = emitted + 1
    /\ stats' = Inc(stats, "total_errors", 1)
    /\ status' = IF severe THEN ERROR ELSE status
    /\ UNCHANGED <<adapter, gw, factory, auth, backend, ws, conns, ext, closed, stop, connected, audio_queue,
                   result_queue, threads, thr, ctl, psh, health, sent, delivered,
                   calls, run>>

DeepgramMsgs ==
    {[transcript |-> Hello, is_final |-> f, speech_final |-> FALSE] : f \in BOOLEAN}

----------------------------------------------------------------------------
(* MockSTTStream *)

\* connect(): _set_status(CONNECTING), then the simulated delay
Mock_connect ==
    /\ adapter = "mock"
    /\ ctl.pc \in {"idle", "sleep"}
    /\ ctl.pc = "idle" => calls.connect < MaxConnect
    /\ ctl' = [op |-> IF ctl.pc = "idle" THEN "connect" ELSE ctl.op, pc |-> "connecting"]
    /\ calls' = [calls EXCEPT !.connect = IF ctl.pc = "idle" THEN @ + 1 ELSE @]
    /\ status' = CONNECTING
    /\ UNCHANGED <<adapter, gw, factory, auth, backend, ws, conns, ext, closed, stop, connected, audio_queue, result_queue, threads,
                   thr, psh, health, stats, sent, delivered, emitted, run>>

\* connect(): _connected, CONNECTED, connection_count, return True
Mock_connect_done ==
    /\ adapter = "mock"
    /\ ctl.pc = "connecting"
    /\ connected' = TRUE
    /\ status' = CONNECTED
    /\ stats' = Inc(stats, "connection_count", 1)
    /\ ctl' = Idle
    /\ calls' = [calls EXCEPT !.connected = @ + 1]
    /\ UNCHANGED <<adapter, gw, factory, auth, backend, ws, conns, ext, closed, stop, audio_queue, result_queue, threads,
                   thr, psh, health, sent, delivered, emitted, run>>

\* close(), also as the first part of _reconnect()
Mock_close ==
    /\ adapter = "mock"
    /\ ctl.pc = "idle"
    /\ \E op \in {"close", "reconnect"} :
         /\ op = "reconnect" => calls.connect < MaxConnect
         /\ calls' = [calls EXCEPT !.connect = IF op = "reconnect" THEN @ + 1 ELSE @,
                                !.close = TRUE]
         /\ stats' = Inc(stats, "reconnection_count", IF op = "reconnect" THEN 1 ELSE 0)
         /\ ctl' = IF op = "close" THEN Idle ELSE [op |-> op, pc |-> "sleep"]
    /\ connected' = FALSE
    /\ status' = CLOSED
    /\ UNCHANGED <<adapter, gw, factory, auth, backend, ws, conns, ext, closed, stop, audio_queue, result_queue, threads,
                   thr, psh, health, sent, delivered, emitted, run>>

\* push(): the _connected test
Mock_push(limit, lens) ==
    /\ adapter = "mock"
    /\ IF connected
       THEN PushCall(limit, lens, "send", "none")
       ELSE PushCall(limit, lens, "idle", "false")
    /\ UNCHANGED <<adapter, gw, factory, auth, backend, ws, conns, ext, status, closed, stop, connected, audio_queue, result_queue,
                   threads, thr, ctl, health, stats, sent, delivered, emitted, run>>

\* push(): STREAMING, statistics, a simulated result for a chunk of more
\* than 1000 bytes, return True
Mock_push_done ==
    /\ adapter = "mock"
    /\ psh.pc = "send"
    /\ status' = STREAMING
    /\ IF psh.chunk.len > MockResultLen
       THEN \E is_final \in BOOLEAN :
              /\ delivered' = Append(delivered,
                     [text |-> Hello, is_final |-> is_final,
                      timestamp |-> Len(delivered) + 1, late |-> (status = CLOSED),
                      raised |-> FALSE])
              /\ stats' = Inc(Inc(stats, "total_bytes_sent", psh.chunk.len),
                              IF is_final THEN "total_final_results"
                                          ELSE "total_partial_results", 1)
       ELSE /\ stats' = Inc(stats, "total_bytes_sent", psh.chunk.len)
            /\ UNCHANGED delivered
    /\ PushReturn(TRUE)
    /\ UNCHANGED <<adapter, gw, factory, auth, backend, ws, conns, ext, closed, stop, connected, audio_queue, result_queue,
                   threads, thr, ctl, health, sent, emitted, run>>

----------------------------------------------------------------------------
(* STTFactory and Config *)

\* STTEngine
Engines == {"google", "deepgram", "iflytek"}

\* the credentials a configuration may hold: the Google application
\* credentials, DEEPGRAM_API_KEY, IFLYTEK_APPID / _API_KEY / _API_SECRET
CredNames == {"google", "deepgram_api_key", "iflytek_appid", "iflytek_api_key",
              "iflytek_api_secret"}

\* Config.get_stt_engine: an unknown STT_ENGINE falls back to Google
GetSttEngine(c) == IF c.STT_ENGINE \in Engines THEN c.STT_ENGINE ELSE "google"

\* Config.get_stt_config: the "api_key" entry of the configuration of the
\* configured engine ("none": no entry or an empty one)
GetSttConfig(c) ==
    [api_key |->
        IF GetSttEngine(c) = "deepgram" /\ "deepgram_api_key" \in c.credentials
        THEN "deepgram_api_key"
        ELSE IF GetSttEngine(c) = "iflytek" /\ "iflytek_api_key" \in c.credentials
        THEN "iflytek_api_key"
        ELSE "none"]

\* STTFactory._create_google_stt: the adapter, or the error of the client
\* library when no credentials are available to it
CreateGoogleStt(c) == IF "google" \in c.credentials THEN "google" ELSE "error"

\* STTFactory._create_deepgram_stt: "if not api_key: raise"
CreateDeepgramStt(config) == IF config.api_key # "none" THEN "deepgram" ELSE "error"

\* STTFactory.create_stt_stream without config_override: the adapter
\* returned, or "error" when it raises
CreateSttStream(engine, c) ==
    LET e == IF engine = "none" THEN GetSttEngine(c) ELSE engine
        base_config == GetSttConfig(c)
    IN  IF e = "google" THEN CreateGoogleStt(c)
        ELSE IF e = "deepgram" THEN CreateDeepgramStt(base_config)
        ELSE "error"

\* one call of the factory on the inputs drawn
Factory_create_stt_stream ==
    /\ factory.result = "none"
    /\ factory' = [factory EXCEPT !.result = CreateSttStream(factory.engine, factory)]
    /\ UNCHANGED <<adapter, gw, auth, backend, ws, conns, ext, status, closed, stop, connected,
                   audio_queue, result_queue, threads, thr, ctl, psh, health, stats,
                   sent, delivered, emitted, calls, run>>

----------------------------------------------------------------------------
(* The gateway (main.py): the rebuild controller of one client connection. *)
(* It makes GoogleSTTStream objects and calls is_healthy(), push() and      *)
(* close() on the current one from its single event loop; it never calls   *)
(* connect(), so the object has no worker threads and every call runs to   *)
(* its end before the next.                                                *)

max_rebuild_attempts == 5
SilentSkipLen == 1000           \* is_likely_silent and bytes_len < 1000

\* the audio messages of the client: a small silent packet, a silent and a
\* non-silent chunk
GwAudio == {[len |-> SmallChunkLen, silent |-> TRUE], [len |-> ChunkLen, silent |-> TRUE],
            [len |-> ChunkLen, silent |-> FALSE]}

\* mutant: the bound tested with > in place of >=
ShouldRebuildStt_gt(g) ==
    IF ~g.stt THEN TRUE
    ELSE IF g.stt_rebuild_count > max_rebuild_attempts THEN FALSE
    ELSE TRUE

\* should_rebuild_stt
ShouldRebuildStt(g) ==
    IF ~g.stt THEN TRUE
    ELSE IF g.stt_rebuild_count >= max_rebuild_attempts THEN FALSE
    ELSE TRUE

\* stt.close() on the current object
Gw_close ==
    /\ closed' = TRUE
    /\ status' = IF closed THEN status ELSE CLOSED
    /\ audio_queue' = IF closed THEN audio_queue ELSE <<>>
    /\ result_queue' = IF closed THEN result_queue ELSE <<>>
    /\ UNCHANGED <<health, stats>>

\* stt = GoogleSTTStream(...), followed by stt.push() for each of chunks
Gw_new(chunks) ==
    /\ closed' = FALSE
    /\ status' = IF chunks = <<>> THEN DISCONNECTED ELSE STREAMING
    /\ audio_queue' = chunks
    /\ result_queue' = <<>>
    /\ health' = InitHealth
    /\ stats' = Inc(InitStats, "total_bytes_sent",
                    IF chunks = <<>> THEN 0 ELSE Head(chunks).len)

\* stt.push(chunk) returns True: there is room in the queue of an object
\* that is not closed
GwPushOk == ~closed /\ Len(audio_queue) < QueueCap

Gw_push(chunk) ==
    /\ audio_queue' = Append(audio_queue, chunk)
    /\ stats' = Inc(stats, "total_bytes_sent", chunk.len)
    /\ status' = STREAMING
    /\ UNCHANGED <<closed, result_queue, health>>

\* create_stt_stream(), then push() of chunks when it returned True: the
\* current object is closed, the count goes up, and the constructor either
\* raises or gives the new current object
GwSessionCreate(raises, chunks) ==
    IF raises
    THEN IF gw.stt THEN Gw_close
         ELSE UNCHANGED <<closed, status, audio_queue, result_queue, health, stats>>
    ELSE Gw_new(chunks)

\* mutant: create_stt_stream() does not close the current stream
GwCloses_never(g) == 0

\* `if stt: stt.close()`: the number of streams the call closes (close() on
\* a closed stream returns at once)
GwCloses(g) == IF g.stt /\ ~closed THEN 1 ELSE 0

\* unclosed: the streams constructed for the connection and not closed yet
GwAfterCreate(g, raises) ==
    [g EXCEPT !.stt = g.stt \/ ~raises,
              !.stt_rebuild_count = @ + 1,
              !.constructed = @ + (IF raises THEN 0 ELSE 1),
              !.unclosed = @ - GwCloses(g) + (IF raises THEN 0 ELSE 1)]

\* the first create_stt_stream(); the handler returns when it fails
Gateway_start ==
    /\ gw.pc = "start"
    /\ \E raises \in BOOLEAN :
         /\ GwSessionCreate(raises, <<>>)
         /\ gw' = [GwAfterCreate(gw, raises) EXCEPT
                      !.pc = IF raises THEN "done" ELSE "loop"]
    /\ UNCHANGED <<adapter, factory, auth, backend, ws, conns, ext, stop, connected, threads,
                   thr, ctl, psh, sent, delivered, emitted, calls, run>>

\* the periodic health check finds the stream unhealthy and may rebuild
Gateway_health_check ==
    /\ gw.pc = "loop"
    /\ \E idle, late, raises \in BOOLEAN :
         /\ ~GoogleIsHealthy(idle, late)
         /\ ShouldRebuildStt(gw)
         /\ GwSessionCreate(raises, <<>>)
         /\ gw' = GwAfterCreate(gw, raises)
    /\ UNCHANGED <<adapter, factory, auth, backend, ws, conns, ext, stop, connected, threads,
                   thr, ctl, psh, sent, delivered, emitted, calls, run>>

\* a binary message of the client
Gateway_audio ==
    /\ gw.pc = "loop"
    /\ \E m \in GwAudio, idle, late, idle2, late2, raises \in BOOLEAN :
         LET chunk == [id |-> 1, len |-> m.len]
             same == UNCHANGED <<closed, status, audio_queue, result_queue, health, stats>>
         IN  IF m.silent /\ m.len < SilentSkipLen
             THEN gw' = [gw EXCEPT !.last = "skipped"] /\ same
             ELSE IF gw.stt /\ GoogleIsHealthy(idle, late)
             THEN IF GwPushOk
                  THEN Gw_push(chunk) /\ gw' = [gw EXCEPT !.last = "pushed"]
                  ELSE IF ~GoogleIsHealthy(idle2, late2) /\ ShouldRebuildStt(gw)
                  THEN /\ GwSessionCreate(raises, <<chunk>>)
                       /\ gw' = [GwAfterCreate(gw, raises) EXCEPT
                                    !.last = IF raises THEN "failed" ELSE "rebuilt"]
                  ELSE gw' = [gw EXCEPT !.last = "failed"] /\ same
             ELSE IF ShouldRebuildStt(gw)
             THEN /\ GwSessionCreate(raises, <<chunk>>)
                  /\ gw' = [GwAfterCreate(gw, raises) EXCEPT
                               !.last = IF raises THEN "dropped" ELSE "rebuilt"]
             ELSE gw' = [gw EXCEPT !.last = "dropped"] /\ same
    /\ UNCHANGED <<adapter, factory, auth, backend, ws, conns, ext, stop, connected, threads,
                   thr, ctl, psh, sent, delivered, emitted, calls, run>>

\* has_sentence_ending_punctuation: the text ends with a mark (blanks may
\* follow it), or a mark stands between two parts that are not blank
PUNCT == "."
HasSentenceEndingPunctuation(text) ==
    \/ RStrip(text) # <<>> /\ RStrip(text)[Len(RStrip(text))] = PUNCT
    \/ \E i \in DOMAIN text :
         /\ text[i] = PUNCT
         /\ \E j \in 1..(i - 1) : text[j] \notin {SP, PUNCT}
         /\ \E k \in (i + 1)..Len(text) : text[k] \notin {SP, PUNCT}

min_chars_for_punctuation_check == 10
ProcessedCap == 100
ProcessedKept == 50

\* detect_text_language
DetectTextLanguage(text, stt_language_code) ==
    IF text = <<>> THEN "unknown"
    ELSE IF \E i \in DOMAIN text : IsHan(text[i])
    THEN (IF stt_language_code \in {"zh-CN", "zh_cn"} THEN stt_language_code ELSE "zh-CN")
    ELSE IF stt_language_code \in {"zh-CN", "zh_cn"} THEN "en-US"
    ELSE stt_language_code

\* the duplicate test of process_text_for_translation
IsDuplicate(g, text, language_code, is_final) ==
    \/ <<Strip(text), is_final, language_code>> \in g.processed_texts
    \/ Strip(text) = g.last_processed_text

\* process_text_for_translation(text, language_code, is_final, False): the
\* gateway's record after it
ProcessTextForTranslation(g, text, language_code, is_final) ==
    IF Len(Strip(text)) = 0 THEN {g}
    ELSE IF IsDuplicate(g, text, language_code, is_final) THEN {g}
    ELSE IF is_final
            \/ (/\ HasSentenceEndingPunctuation(text)
                /\ Len(Strip(text)) >= min_chars_for_punctuation_check)
    THEN LET added == g.processed_texts \cup {<<Strip(text), is_final, language_code>>}
             task == [text |-> text,
                      language |-> DetectTextLanguage(text, language_code),
                      is_final |-> is_final]
         IN  {[g EXCEPT !.processed_texts = kept,
                        !.last_processed_text = Strip(text),
                        !.message_queue = Append(@, task),
                        !.partial_text_buffer = <<>>] :
                 kept \in IF Cardinality(added) > ProcessedCap
                          THEN {k \in SUBSET added : Cardinality(k) = ProcessedKept}
                          ELSE {added}}
    ELSE {g}

\* on_partial / on_final called by the stream with some text
Gateway_on_result(limit, texts, languages) ==
    /\ gw.pc = "loop" /\ gw.stt
    /\ emitted < limit
    /\ \E text \in texts, language_code \in languages, is_final \in BOOLEAN :
         /\ backend' = [utterance |-> text,
                        finals |-> backend.finals + (IF is_final THEN 1 ELSE 0),
                        pgs |-> "none", kind |-> "result"]
         /\ LET g == IF ~is_final /\ Len(Strip(text)) > 0
                     THEN [gw EXCEPT !.partial_text_buffer = text] ELSE gw
            IN  gw' \in ProcessTextForTranslation(g, text, language_code, is_final)
    /\ emitted' = emitted + 1
    /\ UNCHANGED <<adapter, factory, auth, ws, conns, ext, status, closed, stop, connected,
                   audio_queue, result_queue, threads, thr, ctl, psh, health, stats, sent,
                   delivered, calls, run>>

\* the client disconnects: stt.close() in the finally block
Gateway_disconnect ==
    /\ gw.pc = "loop"
    /\ Gw_close
    /\ gw' = [gw EXCEPT !.pc = "done", !.unclosed = @ - GwCloses(gw)]
    /\ UNCHANGED <<adapter, factory, auth, backend, ws, conns, ext, stop, connected, threads,
                   thr, ctl, psh, sent, delivered, emitted, calls, run>>

----------------------------------------------------------------------------
(* The lifecycle specification: one session of any adapter *)

InitSession(a) ==
    /\ adapter = a
    /\ status = DISCONNECTED
    /\ closed = FALSE
    /\ stop = FALSE
    /\ connected = FALSE
    /\ audio_queue = <<>>
    /\ result_queue = <<>>
    /\ threads = <<>>
    /\ thr = NoHandles
    /\ ctl = Idle
    /\ psh = PshIdle
    /\ ws = 0
    /\ conns = <<>>
    /\ ext = InitExt
    /\ health = InitHealth
    /\ stats = InitStats
    /\ sent = <<>>
    /\ delivered = <<>>
    /\ emitted = 0
    /\ backend = [utterance |-> <<>>, finals |-> 0, pgs |-> "none", kind |-> "none"]
    /\ calls = InitCalls
    /\ run = [text |-> <<>>, n |-> 0, prev_partial |-> <<>>, prev_final |-> <<>>]

InitFor(a) == InitSession(a) /\ gw = InitGw /\ factory = NoCall /\ auth = InitAuth

\* IflytekSTTStream.is_healthy
IflytekIsHealthy(idle) ==
    BaseIsHealthy(idle) /\ status \notin {ERROR, CLOSED}

\* DeepgramSTTStream.is_healthy; errors: _connection_errors has reached
\* _max_connection_errors
DeepgramIsHealthy(idle, errors) ==
    /\ BaseIsHealthy(idle)
    /\ ~errors
    /\ ext.current_reconnect_attempts < max_reconnect_attempts

\* is_healthy() of the session's adapter (the Mock inherits the base method)
IsHealthy(idle, late, errors) ==
    CASE adapter = "google" -> GoogleIsHealthy(idle, late)
      [] adapter = "iflytek" -> IflytekIsHealthy(idle)
      [] adapter = "deepgram" -> DeepgramIsHealthy(idle, errors)
      [] OTHER -> BaseIsHealthy(idle)

\* A Google session: connect(), push(), close() and _reconnect() by its
\* callers, the recognition worker and the result worker
InitGoogle == InitFor("google")

NextGoogle ==
    \/ Google_connect
    \/ Google_connect_start
    \/ Google_close
    \/ Google_close_sentinel
    \/ Google_close_clear
    \/ Google_push(MaxInput, ChunkLens)
    \/ Google_push_put
    \/ Google_audio_generator
    \/ Google_response(MaxInput, MaxInput, {Hello}, MaxInput, MaxInput)
    \/ Google_recognition_error
    \/ Google_recognition_end
    \/ Google_result_get
    \/ Google_result_handle({FALSE})

SpecGoogle == InitGoogle /\ [][NextGoogle]_vars

\* An iFlytek session; each chunk pushed fits in one frame
InitIflytek == InitFor("iflytek")

NextIflytek ==
    \/ Iflytek_connect
    \/ Iflytek_connect_wait
    \/ Iflytek_on_open
    \/ Iflytek_on_error
    \/ Iflytek_on_close
    \/ Iflytek_on_message(MaxSessionMessages, IflytekMsgs)
    \/ Iflytek_push(MaxInput, {0, SmallChunkLen})
    \/ Iflytek_push_put
    \/ Iflytek_sender_get
    \/ Iflytek_sender_frame
    \/ Iflytek_sender_send
    \/ Iflytek_close
    \/ Iflytek_close_finish

SpecIflytek == InitIflytek /\ [][NextIflytek]_vars

\* A Deepgram session
InitDeepgram == InitFor("deepgram")

NextDeepgram ==
    \/ Deepgram_connect
    \/ Deepgram_connect_start
    \/ Deepgram_connect_wait
    \/ Deepgram_reconnect
    \/ Deepgram_close
    \/ Deepgram_close_finish
    \/ Deepgram_push(MaxInput, ChunkLens)
    \/ Deepgram_loop_start
    \/ Deepgram_audio_sender
    \/ Deepgram_loop_exit
    \/ Deepgram_on_message(MaxInput, DeepgramMsgs)
    \/ Deepgram_on_close
    \/ Deepgram_on_error(MaxInput)

SpecDeepgram == InitDeepgram /\ [][NextDeepgram]_vars

\* A mock session
InitMock == InitFor("mock")

NextMock ==
    \/ Mock_connect
    \/ Mock_connect_done
    \/ Mock_close
    \/ Mock_push(MaxInput, ChunkLens)
    \/ Mock_push_done

SpecMock == InitMock /\ [][NextMock]_vars

\* The Google pipeline under a backend that keeps reporting: recognition
\* worker -> result queue -> result worker -> callbacks
InitHealthSpec == InitFor("google")

NextHealth ==
    \/ Google_connect
    \/ Google_connect_start
    \/ Google_response(MaxEmitHealth, MaxResultQueue, RawTexts, MaxVaried, MaxFinals)
    \/ Google_result_get
    \/ Google_result_handle({FALSE})

SpecHealth == InitHealthSpec /\ [][NextHealth]_vars

\* _handle_transcript of a Google session called by the result worker with a
\* long run of results: short or long texts, partial or final, in any order
RepeatTexts == {<<"a", "b">>, Hello}

InitRepeat == InitFor("google")

NextRepeat == Google_handle_transcript(MaxRepeatEvents, RepeatTexts)

SpecRepeat == InitRepeat /\ [][NextRepeat]_vars

\* A Deepgram session whose backend reports results that are partial, final
\* (is_final) or the end of an utterance (speech_final)
FinalMsgs ==
    {[transcript |-> text, is_final |-> f, speech_final |-> sf] :
        text \in {Hello, <<SP>>}, f \in BOOLEAN, sf \in BOOLEAN}

InitFinals == InitFor("deepgram")

NextFinals ==
    \/ Deepgram_connect
    \/ Deepgram_connect_start
    \/ Deepgram_connect_wait
    \/ Deepgram_loop_start
    \/ Deepgram_on_message(MaxFinalEvents, FinalMsgs)

SpecFinals == InitFinals /\ [][NextFinals]_vars

\* The Google pipeline with caller-supplied callbacks that may raise
InitCallback == InitFor("google")

NextCallback ==
    \/ Google_connect
    \/ Google_connect_start
    \/ Google_response(MaxCallbackEvents, MaxInput, {Hello}, MaxVaried, MaxFinals)
    \/ Google_result_get
    \/ Google_result_handle(BOOLEAN)

SpecCallback == InitCallback /\ [][NextCallback]_vars

\* The audio queue under many push() calls: a Google session with its
\* pusher, its consumer and its controller, or an iFlytek session that is
\* pushed to and closed without a connect(), so that no sender runs
InitQueue == \E a \in {"google", "iflytek"} : InitFor(a)

\* the consumer, for as long as fewer than MaxConsume items have been taken
Queue_audio_generator == calls.consumed < MaxConsume /\ Google_audio_generator

\* the pusher, for as long as close() has not been called
Queue_Google_push == ~calls.close /\ Google_push(MaxPushFull, {ChunkLen})
Queue_Iflytek_push == ~calls.close /\ Iflytek_push(MaxPushFull, {ChunkLen})

NextQueue ==
    \/ Google_connect
    \/ Google_connect_start
    \/ Google_close
    \/ Google_close_sentinel
    \/ Google_close_clear
    \/ Queue_Google_push
    \/ Google_push_put
    \/ Google_push_wait_put
    \/ Google_push_wait_full
    \/ Queue_audio_generator
    \/ Iflytek_close
    \/ Iflytek_close_finish
    \/ Queue_Iflytek_push
    \/ Iflytek_push_put

SpecQueue == InitQueue /\ [][NextQueue]_vars

\* The statistics of the Mock, Google and iFlytek sessions: their connect(),
\* push(), close() and reset_stats() calls, with the socket opening (or not,
\* until the timeout) that decides what connect() returns
InitStatistics == \E a \in {"mock", "google", "iflytek"} : InitFor(a)

NextStatistics ==
    \/ Mock_connect
    \/ Mock_connect_done
    \/ Mock_close
    \/ Mock_push(MaxInput, ChunkLens)
    \/ Mock_push_done
    \/ Google_connect
    \/ Google_connect_start
    \/ Google_close
    \/ Google_close_sentinel
    \/ Google_close_clear
    \/ Google_push(MaxInput, ChunkLens)
    \/ Google_push_put
    \/ Iflytek_connect
    \/ Iflytek_connect_wait
    \/ Iflytek_on_open
    \/ Iflytek_push(MaxInput, ChunkLens)
    \/ Iflytek_push_put
    \/ Iflytek_close
    \/ Iflytek_close_finish
    \/ reset_stats

SpecStatistics == InitStatistics /\ [][NextStatistics]_vars

\* The status of a session of each adapter: the connect(), push() and close()
\* calls and the opening and closing of the socket, which set it
InitStatus == \E a \in {"mock", "google", "iflytek", "deepgram"} : InitFor(a)

NextStatus ==
    \/ Mock_connect
    \/ Mock_connect_done
    \/ Mock_close
    \/ Mock_push(MaxStatusPush, ChunkLens)
    \/ Mock_push_done
    \/ Google_connect
    \/ Google_connect_start
    \/ Google_close
    \/ Google_close_sentinel
    \/ Google_close_clear
    \/ Google_push(MaxStatusPush, ChunkLens)
    \/ Google_push_put
    \/ Iflytek_connect
    \/ Iflytek_connect_wait
    \/ Iflytek_on_open
    \/ Iflytek_on_close
    \/ Iflytek_push(MaxStatusPush, ChunkLens)
    \/ Iflytek_push_put
    \/ Iflytek_close
    \/ Iflytek_close_finish
    \/ Deepgram_connect
    \/ Deepgram_connect_start
    \/ Deepgram_connect_wait
    \/ Deepgram_close
    \/ Deepgram_close_finish
    \/ Deepgram_push(MaxStatusPush, ChunkLens)
    \/ Deepgram_loop_start
    \/ Deepgram_on_close

SpecStatus == InitStatus /\ [][NextStatus]_vars

\* IflytekSTTStream.__init__ for the next session object, made once the calls
\* on the present one have returned: every attribute has its initial value
Iflytek_init(creds) ==
    /\ adapter = "iflytek"
    /\ ctl.pc = "idle" /\ psh.pc = "idle"
    /\ \E c \in creds : auth' = [auth EXCEPT !.cred = c]
    /\ status' = DISCONNECTED
    /\ closed' = FALSE
    /\ stop' = FALSE
    /\ connected' = FALSE
    /\ audio_queue' = <<>>
    /\ result_queue' = <<>>
    /\ threads' = <<>>
    /\ thr' = NoHandles
    /\ ctl' = Idle
    /\ psh' = PshIdle
    /\ ws' = 0
    /\ conns' = <<>>
    /\ ext' = InitExt
    /\ health' = InitHealth
    /\ stats' = InitStats
    /\ sent' = <<>>
    /\ delivered' = <<>>
    /\ emitted' = 0
    /\ calls' = InitCalls
    /\ UNCHANGED <<adapter, gw, factory, backend, run>>

\* datetime.datetime.utcnow() moves on by a second
Clock_tick ==
    /\ auth.now < MaxClock
    /\ auth' = [auth EXCEPT !.now = @ + 1]
    /\ UNCHANGED <<adapter, gw, factory, backend, ws, conns, ext, status, closed, stop, connected,
                   audio_queue, result_queue, threads, thr, ctl, psh, health, stats, sent,
                   delivered, emitted, calls, run>>

\* The signing of the iFlytek URL: sessions made with different credentials
\* and endpoints, connected while the clock moves
AuthCredentials ==
    { Credentials(k, s, HostUrl(h, p)) :
        k \in {"key1", "key2"}, s \in {"secret1", "secret2"},
        h \in {"example.com", "iat-api.xfyun.cn"}, p \in {0, 443} }

InitSigning ==
    /\ InitSession("iflytek")
    /\ gw = InitGw
    /\ factory = NoCall
    /\ \E c \in AuthCredentials : auth = [InitAuth EXCEPT !.cred = c]

NextSigning ==
    \/ Iflytek_init(AuthCredentials)
    \/ Clock_tick
    \/ Iflytek_connect
    \/ Iflytek_connect_wait
    \/ Iflytek_on_open

SpecSigning == InitSigning /\ [][NextSigning]_vars

\* The aggregation of the iFlytek results: a connected session receiving
\* messages with and without text, appended or replacing, some ending an
\* utterance
AggregationMsgs ==
    {[code |-> 0, status |-> st, text |-> t, pgs |-> pgs] :
        st \in {1, 2}, t \in {<<>>, <<"h", "i">>, <<SP>>},
        pgs \in {"apd", "rpl", "none", "other"}}

InitAggregation == InitFor("iflytek")

NextAggregation ==
    \/ Iflytek_connect
    \/ Iflytek_connect_wait
    \/ Iflytek_on_open
    \/ Iflytek_on_message(MaxMessages, AggregationMsgs)

SpecAggregation == InitAggregation /\ [][NextAggregation]_vars

\* The framing of the iFlytek audio: chunks shorter than a frame, of a frame
\* and a shorter piece, and of two whole frames are pushed
\* to a session that may be connected again at any time
FramingLens == {SmallChunkLen, ChunkLen, 2 * frame_size}

InitFraming == InitFor("iflytek")

NextFraming ==
    \/ Iflytek_connect
    \/ Iflytek_connect_wait
    \/ Iflytek_on_open
    \/ Iflytek_push(MaxFramingPush, FramingLens)
    \/ Iflytek_push_put
    \/ Iflytek_sender_get
    \/ Iflytek_sender_frame
    \/ Iflytek_sender_send

SpecFraming == InitFraming /\ [][NextFraming]_vars

\* The inbound messages of an iFlytek session: results with and without text,
\* malformed messages and error frames
MalformedKinds == {"bad_json", "null_data", "no_data", "no_result"}
BadMessageKinds == MalformedKinds \cup {"error", "error_timeout"}

InboundMsgs ==
    {[code |-> 0, status |-> st, text |-> t, pgs |-> "apd"] :
        st \in {1, 2}, t \in {<<>>, Hello}}

InitInbound == InitFor("iflytek")

NextInbound ==
    \/ Iflytek_connect
    \/ Iflytek_connect_wait
    \/ Iflytek_on_open
    \/ Iflytek_on_message(MaxInbound, InboundMsgs)
    \/ Iflytek_on_bad_message(MaxInbound, BadMessageKinds)

SpecInbound == InitInbound /\ [][NextInbound]_vars

\* The language tags of the iFlytek results: a session made for some language
\* receiving texts with and without ideographs
Languages == {"zh_cn", "en-US"}

LanguageMsgs ==
    {[code |-> 0, status |-> st, text |-> t, pgs |-> "apd"] :
        st \in {1, 2}, t \in {<<HAN>>, <<"h", "i">>}}

InitLanguage ==
    /\ InitSession("iflytek")
    /\ gw = InitGw
    /\ factory = NoCall
    /\ \E lang \in Languages : auth = [InitAuth EXCEPT !.language = lang]

NextLanguage ==
    \/ Iflytek_connect
    \/ Iflytek_connect_wait
    \/ Iflytek_on_open
    \/ Iflytek_on_message(MaxLanguageMsgs, LanguageMsgs)

SpecLanguage == InitLanguage /\ [][NextLanguage]_vars

\* _handle_transcript of a Google session called with texts of every shape
TranscriptTexts == RawTexts \cup {<<>>}

InitTranscript == InitFor("google")

NextTranscript == Google_handle_transcript(MaxTranscripts, TranscriptTexts)

SpecTranscript == InitTranscript /\ [][NextTranscript]_vars

\* The factory called once, for every selector (or None) and configuration
InitFactory ==
    /\ InitSession("mock")
    /\ gw = InitGw
    /\ auth = InitAuth
    /\ factory \in [engine : Engines \cup {"none"}, STT_ENGINE : Engines \cup {"other"},
                     credentials : SUBSET CredNames, result : {"none"}]

NextFactory == Factory_create_stt_stream

SpecFactory == InitFactory /\ [][NextFactory]_vars

\* The gateway serving one client connection
InitGateway == InitFor("google")

NextGateway ==
    \/ Gateway_start
    \/ Gateway_health_check
    \/ Gateway_audio
    \/ Gateway_disconnect

SpecGateway == InitGateway /\ [][NextGateway]_vars

\* The gateway's callbacks: partial and final texts, with and without a
\* sentence end, reach on_partial and on_final in any order
Sentence == <<"a", "b", "c", "d", "e", "f", "g", "h", "i", PUNCT>>
TranslationTexts == {Sentence, Hello, <<SP>>}

InitTranslation == InitFor("google")

NextTranslation ==
    \/ Gateway_start
    \/ Gateway_on_result(MaxResults, TranslationTexts, {"en-US", "zh-CN"})

SpecTranslation == InitTranslation /\ [][NextTranslation]_vars

----------------------------------------------------------------------------
(* Properties *)

AllowedEdges ==
    {<<DISCONNECTED, CONNECTING>>, <<CONNECTING, CONNECTED>>, <<CONNECTING, ERROR>>,
     <<CONNECTED, STREAMING>>}
    \cup ({CONNECTING, CONNECTED, STREAMING} \X {ERROR, CLOSED})

\* C1: every change of the status follows an edge of the status graph, and
\* no change leaves Closed
C1_StatusEdges == [][status' # status => <<status, status'>> \in AllowedEdges]_vars

\* C2: a push() called on a session whose status is Closed does not return
\* true and adds nothing to the audio queue
C2_PushOnClosed == psh.onClosed => (psh.ret # "true" /\ ~psh.enq)

\* C3: no callback is invoked while the status is Closed
C3_NoCallbackAfterClosed == \A i \in DOMAIN delivered : ~delivered[i].late

\* C4: the audio queue never holds more than 100 items, and while nothing
\* has been consumed and close() has not been called, a completed series of
\* n pushes of non-empty chunks has min(n, 100) accepted, the last one
\* accepted exactly when n <= 100
C4_QueueCapacity ==
    /\ Len(audio_queue) <= QueueCap
    /\ (calls.consumed = 0 /\ ~calls.close /\ psh.pc = "idle" /\ calls.push > 0) =>
          /\ calls.accepted = IF calls.push <= QueueCap THEN calls.push ELSE QueueCap
          /\ psh.ret = IF calls.push <= QueueCap THEN "true" ELSE "false"

\* C4 witness: the 101st of 101 pushes has returned false with nothing
\* consumed
C4_Witness ==
    /\ calls.push = QueueCap + 1 /\ psh.pc = "idle" /\ psh.ret = "false"
    /\ calls.consumed = 0 /\ ~calls.close /\ calls.accepted = QueueCap
    /\ Len(audio_queue) = QueueCap

\* C5: push() is never waiting for a queue slot, sleeping, or inside a
\* connect / reconnect
C5_PushNeverWaits == psh.pc \notin {"put_wait", "sleep", "start", "wait"}

\* C6: audio frames reach the backend chunk after chunk in the order of
\* acceptance, and within a chunk in increasing offset order
C6_AudioFifo ==
    \A i, j \in DOMAIN sent :
       (i < j /\ sent[i].st # 2 /\ sent[j].st # 2) =>
          \/ sent[i].chunk < sent[j].chunk
          \/ (sent[i].chunk = sent[j].chunk /\ sent[i].off < sent[j].off)

\* C7: callbacks are invoked in the order in which the backend produced the
\* events
C7_TranscriptOrder ==
    \A i, j \in DOMAIN delivered :
       i < j => delivered[i].timestamp < delivered[j].timestamp

LiveCount(kinds) ==
    Cardinality({t \in DOMAIN threads : threads[t].kind \in kinds /\ IsAlive(t)})

\* C8: at most one live transport loop of each kind and at most one live
\* result-processing loop
C8_OneLoopEach ==
    /\ LiveCount({"rec"}) <= 1
    /\ LiveCount({"sender"}) <= 1
    /\ LiveCount({"ws"}) <= 1
    /\ LiveCount({"loop"}) <= 1
    /\ LiveCount({"res"}) <= 1

\* C9 as stated: from the 10th identical consecutive partial report of a
\* text of length >= 3 on, is_healthy() is false
C9_TenthReportFlips ==
    (run.n >= max_repeat_threshold /\ Len(run.text) >= min_transcript_length) =>
        \A idle, late \in BOOLEAN : ~GoogleIsHealthy(idle, late)

\* C9 amended: from the 11th identical consecutive partial report of a text
\* of length >= 3 on (the 10th repeat), is_healthy() is false
C9_EleventhReportFlips ==
    (run.n >= max_repeat_threshold + 1 /\ Len(run.text) >= min_transcript_length) =>
        \A idle, late \in BOOLEAN : ~GoogleIsHealthy(idle, late)

\* C9 witness: the 11th identical consecutive partial report has been handled
C9_Witness ==
    /\ run.n = max_repeat_threshold + 1 /\ run.text = Hello
    /\ health.repeat_count = max_repeat_threshold

\* C10: while the session is not closed, a final result waiting in the
\* result queue has a live result worker to deliver it
C10_FinalsDelivered ==
    (~closed /\ \E i \in DOMAIN result_queue :
                   result_queue[i].kind = "result" /\ result_queue[i].is_final)
       => LiveCount({"res"}) >= 1

\* C11: when the streaming call of the Google recognition worker raises on
\* a session that has not been closed, or the iFlytek / Deepgram WebSocket
\* reports an error or closes on such a session, the status becomes Error
C11_TransportFailureSetsError ==
    [][(~calls.close /\ ~closed /\ status # CLOSED /\
          \/ Google_recognition_error
          \/ Iflytek_on_error
          \/ Iflytek_on_close
          \/ Deepgram_on_close
          \/ Deepgram_on_error(MaxInput))
       => status' = ERROR]_vars

\* the handshake of the session's current connection has completed
HandshakeDone == ws # 0 /\ conns[ws] \in {"open", "closing", "closed"}

\* C12: connect() returns with the status Connected exactly when the
\* handshake of its connection has completed, and with the status Error
\* otherwise
C12_ConnectResult ==
    [][(ctl.op = "connect" /\ ctl.pc = "wait" /\ ctl'.pc = "idle")
       => status' = IF HandshakeDone THEN CONNECTED ELSE ERROR]_vars

\* what close() may touch: the status, the flags, the queues, what is sent
\* to the backend and the connection
CloseState == <<status, closed, stop, connected, audio_queue, result_queue, sent, conns, ws>>

\* C13: a step of close() on a session that has been closed and whose
\* status is Closed changes no state and sends nothing
C13_CloseIdempotent ==
    [][(calls.close /\ status = CLOSED /\ ctl.op \in {"none", "close"} /\
          \/ Google_close
          \/ Iflytek_close
          \/ Mock_close
          \/ Deepgram_close
          \/ Deepgram_close_finish)
       => UNCHANGED CloseState]_vars

\* C14, close() returns: a close() that set the closed mark returns with
\* the status Closed
C14_CloseReturnsClosed ==
    [][(ctl.op = "close" /\ ctl'.pc = "idle") => status' = CLOSED]_vars

\* a result worker invokes a callback that raises
RaisingCallback(t) ==
    /\ threads[t].kind = "res" /\ threads[t].pc = "got"
    /\ threads'[t].pc # "got"
    /\ Len(delivered') = Len(delivered) + 1
    /\ delivered'[Len(delivered')].raised

\* C15: an exception raised by on_partial / on_final adds one to
\* total_errors, leaves the status alone and leaves the result worker in its
\* loop, ready for the next event
C15_CallbackExceptionCaught ==
    [][\A t \in DOMAIN threads :
         RaisingCallback(t) =>
            /\ stats'.total_errors = stats.total_errors + 1
            /\ status' = status
            /\ threads'[t].pc = "idle"]_vars

\* C15 witness: a callback raised and a later event was delivered all the same
C15_Witness ==
    \E i, j \in DOMAIN delivered :
       /\ i < j /\ delivered[i].raised
       /\ stats.total_errors >= 1 /\ status = CONNECTED

\* the credentials the configuration validation requires for a backend
Required(e) ==
    IF e = "google" THEN {"google"}
    ELSE IF e = "deepgram" THEN {"deepgram_api_key"}
    ELSE {"iflytek_appid", "iflytek_api_key", "iflytek_api_secret"}

\* C17: called with a backend selector, the factory returns the adapter of
\* that backend when the backend's credentials are configured, and raises
\* when one is missing
C17_FactoryReturnsAdapter ==
    (factory.result # "none" /\ factory.engine \in Engines) =>
        factory.result = IF Required(factory.engine) \subseteq factory.credentials
                         THEN factory.engine ELSE "error"

\* C16: the gateway never constructs more than max_rebuild_attempts
\* streams for one client connection, and once the count has reached the
\* bound no step constructs another
C16_RebuildBound ==
    [][/\ gw'.constructed <= max_rebuild_attempts
       /\ gw.stt_rebuild_count >= max_rebuild_attempts =>
             gw'.constructed = gw.constructed]_vars

\* C16 witness: the bound has been reached by five constructions and an
\* audio message has been dropped
C16_Witness ==
    /\ gw.stt_rebuild_count = max_rebuild_attempts
    /\ gw.constructed = max_rebuild_attempts
    /\ gw.last = "dropped"

\* C18: a step of push() with a non-empty chunk on a session whose status
\* is Disconnected and on which no connect() has succeeded does not return
\* true, queues nothing and leaves the status Disconnected
C18_PushOnDisconnected ==
    [][(status = DISCONNECTED /\ stats.connection_count = 0 /\ ~calls.close
          /\ psh' # psh /\ psh'.chunk.len > 0)
       => (psh'.ret # "true" /\ audio_queue' = audio_queue
             /\ status' = DISCONNECTED)]_vars

\* C19: on the Mock, Google and iFlytek sessions, in every reachable state
\* total_bytes_sent is the sum of the lengths of the chunks whose push()
\* returned true, and connection_count is the number of connect() calls that
\* returned true
C19_StatsMatchCalls ==
    adapter \in {"mock", "google", "iflytek"} =>
        /\ stats.total_bytes_sent = calls.bytes
        /\ stats.connection_count = calls.connected

\* C19, with its scope stated: the two statistics equal the accepted bytes and
\* the successful connect() calls in every reachable state in which
\* reset_stats() has not been called
C19_StatsMatchCallsUntilReset ==
    (adapter \in {"mock", "google", "iflytek"} /\ ~calls.reset) =>
        /\ stats.total_bytes_sent = calls.bytes
        /\ stats.connection_count = calls.connected

\* a session without a reset on which one connect() returned false and
\* another true, one push was accepted and a later one rejected
C19_Witness ==
    /\ adapter = "iflytek"
    /\ ~calls.reset
    /\ ctl.pc = "idle"
    /\ calls.connected > 0
    /\ calls.connect > calls.connected
    /\ calls.bytes > 0
    /\ calls.push > calls.accepted
    /\ psh.pc = "idle" /\ psh.ret = "false"

\* C20: for every adapter, is_healthy() is false in every state whose status is
\* Disconnected, Error or Closed (whatever the idle time and the counters);
\* it can be true only while the status is Connecting, Connected or Streaming
C20_UnhealthyWhenNotConnected ==
    \A idle \in BOOLEAN, late \in BOOLEAN, errors \in BOOLEAN :
        /\ status \in {DISCONNECTED, ERROR, CLOSED} => ~IsHealthy(idle, late, errors)
        /\ IsHealthy(idle, late, errors) => status \in {CONNECTING, CONNECTED, STREAMING}

\* a session that was connected and then failed: nothing but its status (no
\* idle time, no close() call, no error counter) makes it unhealthy
C20_Witness ==
    /\ status = ERROR
    /\ stats.connection_count > 0
    /\ ~calls.close
    /\ ~IsHealthy(FALSE, FALSE, FALSE)

IsAudioFrame(i) == sent[i].st \in {0, 1}

\* C22: on one iFlytek connection the first audio frame sent, and no other,
\* carries status 0 (with the common and business blocks); every later audio
\* frame carries status 1; the frame sent by close() carries status 2 and no
\* audio
C22_FrameStatusSequence ==
    adapter = "iflytek" =>
        \A i \in DOMAIN sent :
            /\ IsAudioFrame(i) =>
                  (sent[i].st = 0 <=>
                     ~\E j \in 1..(i - 1) : IsAudioFrame(j) /\ sent[j].conn = sent[i].conn)
            /\ sent[i].st = 2 => sent[i].chunk = 0

\* C24: no audio frame (status 0 or 1) is sent on an iFlytek connection after
\* the end frame (status 2) that close() sent on it
C24_EndFrameIsLast ==
    adapter = "iflytek" =>
        \A i \in DOMAIN sent, j \in DOMAIN sent :
            (i < j /\ sent[i].st = 2 /\ sent[j].conn = sent[i].conn)
                => ~IsAudioFrame(j)

\* the callbacks invoked by the step
NewlyDelivered == SubSeq(delivered', Len(delivered) + 1, Len(delivered'))

\* C23: every inbound iFlytek message with code 0 and status 2 closes the
\* utterance: when the accumulated text (the buffer with the text of the
\* message) is not empty (here: holds more than whitespace) exactly one
\* on_final carrying it is invoked, and after the message the accumulated text
\* and the last partial are empty
C23_LastFrameClosesUtterance ==
    [][(adapter = "iflytek" /\ backend'.finals = backend.finals + 1) =>
         LET accumulated == ext.agg_text \o backend'.utterance
         IN  /\ Strip(accumulated) # <<>> =>
                   /\ Count(NewlyDelivered, TRUE) = 1
                   /\ \E i \in DOMAIN NewlyDelivered :
                         /\ NewlyDelivered[i].is_final
                         /\ NewlyDelivered[i].text = accumulated
             /\ ext'.agg_text = <<>>
             /\ ext'.last_partial = <<>>]_vars

\* C25: when close() returns, the audio queue of the session (and the result
\* queue of a Google session) is empty: no chunk and no sentinel is left
C25_QueuesEmptyAfterClose ==
    [][(ctl.op = "close" /\ ctl'.pc = "idle") =>
         /\ audio_queue' = <<>>
         /\ adapter = "google" => result_queue' = <<>>]_vars

\* some sender worker of the session is alive
LiveSender == \E t \in DOMAIN threads : threads[t].kind = "sender" /\ threads[t].pc # "exited"

\* C26: after an iFlytek _reconnect() that returned true, while close() has
\* not been called again and the connection is open, a chunk accepted by
\* push() and waiting in the queue has a live sender worker to send it
C26_SenderAfterReconnect ==
    (/\ adapter = "iflytek"
     /\ calls.reconnected > 0
     /\ ctl.pc = "idle" /\ ~closed
     /\ status = STREAMING
     /\ conns[ws] = "open"
     /\ audio_queue # <<>> /\ audio_queue[Len(audio_queue)] # None)
    => LiveSender

\* C27: after a Google _reconnect() that returned true (status Connected, no
\* call in progress, close() not called since), the session is usable: a
\* push() into an audio queue with room is not rejected
C27_UsableAfterReconnect ==
    [][(/\ adapter = "google"
        /\ calls.reconnected > 0
        /\ status = CONNECTED
        /\ ctl.pc = "idle"
        /\ calls'.push = calls.push + 1
        /\ Len(audio_queue) < QueueCap)
       => psh'.ret # "false"]_vars

\* C28: an iFlytek connect() (called directly or by _reconnect()) returns
\* true only if the WebSocket that this very call created has had its on_open
C28_ConnectNeedsOwnOpen ==
    [][(/\ adapter = "iflytek"
        /\ ctl.pc = "wait" /\ ctl'.pc = "idle"
        /\ calls'.connected = calls.connected + 1)
       => HandshakeDone]_vars

\* C29: in the Google health monitor, processing a (non-empty) final result
\* neither resets nor increments the count of consecutive identical partial
\* results
C29_SeparateRepeatStreaks ==
    [][\A t \in DOMAIN threads :
         (/\ adapter = "google"
          /\ threads[t].kind = "res" /\ threads[t].pc = "got"
          /\ threads'[t].pc # "got"
          /\ threads[t].res.is_final
          /\ Strip(threads[t].res.transcript) # <<>>)
         => health'.repeat_count = health.repeat_count]_vars

\* the step is a call of _handle_transcript with text `text` of kind `is_final`
\* whose previous text of the same kind is `previous`: the streaks after an
\* empty result, and after a non-empty result that differs from `previous`
StreaksAfter(text, previous) ==
    /\ Strip(text) = <<>> =>
          /\ health'.consecutive_empty_count = health.consecutive_empty_count + 1
          /\ health'.repeat_count = 0
    /\ (Strip(text) # <<>> /\ text # previous) =>
          /\ health'.consecutive_empty_count = 0
          /\ health'.repeat_count = 0

LastResponsesProcessed ==
    /\ adapter = "google"
    /\ emitted >= max_empty_threshold + MaxVaried - 1
    /\ result_queue = <<>>
    /\ \A t \in DOMAIN threads : threads[t].kind = "res" => threads[t].pc # "got"

\* C31: once the backend has returned max_empty_threshold consecutive results
\* whose transcript is empty after trimming and the pipeline has processed
\* them, the empty-result count has reached the threshold and is_healthy()
\* is false
C31_EmptyResultsDetected ==
    (LastResponsesProcessed /\ Strip(backend.utterance) = <<>>) =>
        /\ health.consecutive_empty_count >= max_empty_threshold
        /\ ~GoogleIsHealthy(FALSE, FALSE)

\* C32: when _handle_transcript is given a text of fewer than
\* min_transcript_length characters whose repetition raises the repeat count
\* to the threshold or beyond, the repeat condition of _check_stream_health
\* does not fail
C32_ShortRepeatsTolerated ==
    [][(/\ adapter = "google" /\ emitted' = emitted + 1
        /\ health'.repeat_count = health.repeat_count + 1
        /\ health'.repeat_count >= max_repeat_threshold
        /\ Len(backend'.utterance) < min_transcript_length) =>
           ~(/\ health'.repeat_count >= max_repeat_threshold
             /\ Len(health'.last_transcript) >= min_transcript_length)]_vars

\* C33: every Deepgram result that is treated as final (is_final or
\* speech_final) and has non-empty text is delivered to on_final, whatever
\* was reported before it
C33_FinalsAlwaysDelivered ==
    [][(/\ adapter = "deepgram"
        /\ backend'.finals = backend.finals + 1
        /\ Strip(backend'.utterance) # <<>>) =>
           /\ Len(delivered') = Len(delivered) + 1
           /\ delivered'[Len(delivered')].is_final
           /\ delivered'[Len(delivered')].text = backend'.utterance]_vars

\* C34: a message that does not end the utterance leaves the aggregated text
\* as _update_aggregate_text is said to compute it: current + text for pgs
\* 'apd' or absent; for pgs 'rpl' current + text, or current alone when
\* current already ends with text; current for an empty text or another pgs
C34_AggregateText ==
    [][(/\ adapter = "iflytek" /\ emitted' = emitted + 1
        /\ backend'.finals = backend.finals) =>
           LET current == ext.agg_text
               text == backend'.utterance
               pgs == backend'.pgs
               result == ext'.agg_text
           IN  /\ (text # <<>> /\ pgs \in {"apd", "none"}) => result = current \o text
               /\ (text # <<>> /\ pgs = "rpl") =>
                      result = IF EndsWith(current, text) THEN current
                                                          ELSE current \o text
               /\ (text = <<>> \/ pgs \notin {"apd", "none", "rpl"}) =>
                      result = current]_vars

\* C36: every text an iFlytek message makes the callbacks receive comes with
\* the language code zh-CN when it contains an ideograph, and with the
\* language the session was made for otherwise
C36_LanguageOfText ==
    [][(adapter = "iflytek" /\ emitted' = emitted + 1) =>
         \A i \in (Len(delivered) + 1)..Len(delivered') :
             ext'.language_code =
                 IF \E k \in DOMAIN delivered'[i].text : IsHan(delivered'[i].text[k])
                 THEN "zh-CN" ELSE auth.language]_vars

\* the audio frames sent for chunk id, in the order they were sent
FramesOf(id) == SelectSeq(sent, LAMBDA f : f.chunk = id /\ f.st # 2)

\* the decoded payloads of `frames` are consecutive pieces of `chunk` that
\* start at its first byte and end at its last, each of at most frame_size
\* bytes and all but the last of exactly frame_size
RoundTrip(frames, chunk) ==
    /\ frames # <<>>
    /\ B64Decode(frames[1].audio).from = 0
    /\ B64Decode(frames[Len(frames)].audio).to = chunk.len
    /\ \A i \in DOMAIN frames :
         LET piece == B64Decode(frames[i].audio)
         IN  /\ piece.id = chunk.id
             /\ piece.to - piece.from <= frame_size
             /\ piece.to > piece.from
             /\ i < Len(frames) =>
                   /\ piece.to - piece.from = frame_size
                   /\ B64Decode(frames[i + 1].audio).from = piece.to

\* C35: when an iFlytek sender leaves its inner loop with the whole chunk
\* consumed, the frames sent for the chunk carry at most 1280 bytes each (all
\* but the last exactly 1280) and their decoded payloads, in send order, are
\* the bytes of the chunk
C35_FramesRebuildChunk ==
    [][\A t \in DOMAIN threads :
         (/\ adapter = "iflytek" /\ t \in DOMAIN threads'
          /\ threads[t].kind = "sender" /\ threads[t].pc = "send"
          /\ threads'[t].pc = "idle"
          /\ threads[t].off >= threads[t].chunk.len) =>
             RoundTrip(FramesOf(threads[t].chunk.id), threads[t].chunk)]_vars

\* a chunk longer than a frame has been sent as two frames, the second one
\* shorter than a frame, and its sender is back at the queue
C35_Witness ==
    \E t \in DOMAIN threads, i \in DOMAIN sent :
        /\ threads[t].kind = "sender" /\ threads[t].pc = "idle"
        /\ sent[i].thread = t
        /\ Len(FramesOf(sent[i].chunk)) = 2
        /\ B64Decode(sent[i].audio) =
               [id |-> sent[i].chunk, from |-> frame_size, to |-> ChunkLen]

\* C37: an iFlytek message that is malformed (not JSON, data null or absent,
\* no result) or whose parsed text is empty leaves the status and the
\* aggregation as they are and invokes no callback
C37_MalformedMessageIgnored ==
    [][(/\ adapter = "iflytek" /\ emitted' = emitted + 1
        /\ \/ backend'.kind \in MalformedKinds
           \/ backend'.kind = "result" /\ backend'.utterance = <<>>) =>
           /\ status' = status
           /\ ext'.agg_text = ext.agg_text
           /\ ext'.last_partial = ext.last_partial
           /\ delivered' = delivered]_vars

\* a message that is not JSON has arrived in the middle of an utterance of a
\* connected session
C37_Witness ==
    /\ adapter = "iflytek"
    /\ backend.kind = "bad_json"
    /\ ext.agg_text # <<>>
    /\ status = CONNECTED
    /\ stats.total_errors > 0

\* C38: in the gateway, a stream that holds pushed audio and is not closed
\* has a running recognition worker to take it
C38_PushedStreamHasWorker ==
    (adapter = "google" /\ gw.pc = "loop" /\ ~closed /\ audio_queue # <<>>) =>
        \E t \in DOMAIN threads : threads[t].kind = "rec" /\ threads[t].pc = "run"

\* C39: of the streams the gateway has constructed for the connection, at
\* most one is not closed, and none once the connection has ended
C39_OneOpenStream ==
    /\ gw.unclosed <= 1
    /\ gw.pc = "done" => gw.unclosed = 0

\* the connection has ended after two rebuilds
C39_Witness ==
    /\ gw.pc = "done"
    /\ gw.constructed >= 3
    /\ gw.unclosed = 0
    /\ closed

\* C40: every call of on_final with a text that is not blank queues a
\* translation task for that text with is_final true
C40_FinalQueuesTranslation ==
    [][(/\ emitted' = emitted + 1 /\ gw.pc = "loop"
        /\ backend'.finals = backend.finals + 1
        /\ Strip(backend'.utterance) # <<>>) =>
           /\ Len(gw'.message_queue) = Len(gw.message_queue) + 1
           /\ gw'.message_queue[Len(gw'.message_queue)].text = backend'.utterance
           /\ gw'.message_queue[Len(gw'.message_queue)].is_final]_vars

====
